---------------------------- MODULE Spec2Model ----------------------------
(***************************************************************************)
(* Model of the resilient HTTP client of halolight-bff                     *)
(* (src/src/services/httpClient.ts): createHttpClient, doFetch and the     *)
(* retry loop of request.  One client is constructed in Init; request      *)
(* calls are made on it one after the other.  An attempt (doFetch) is      *)
(* split at its two suspension points: the await of fetch and the await of *)
(* the body read.                                                          *)
(*                                                                         *)
(* The service registry of the same file (loadServices, ServiceRegistry)   *)
(* is modelled beside it.  Spec follows the client and the GET of          *)
(* checkHealth attempt by attempt; SpecRegistry has getClient,             *)
(* getDefaultClient and reload over all six service kinds; SpecHealth adds *)
(* checkHealth and checkAllHealth, each GET being one step from issued to  *)
(* settled, with reload running between the steps of suspended checks.     *)
(*                                                                         *)
(* The request path around the client is modelled in four further          *)
(* specifications over the same state: SpecOutbound (the headers and URL   *)
(* doFetch hands to fetch, directly and through createContext's            *)
(* ctx.services), SpecFolders, SpecDocuments and SpecTeams (the in-memory  *)
(* routers behind protectedProcedure and adminProcedure, with the          *)
(* hasPermission middleware).  Date.now() is a clock that never goes back. *)
(***************************************************************************)
EXTENDS Integers, Sequences, FiniteSets, TLC

(* ------------------------------------------------------------------ *)
(* Bounds                                                             *)
(* ------------------------------------------------------------------ *)

\* largest retry count a caller passes in the model
MaxRetries == 6

(* ------------------------------------------------------------------ *)
(* Optional values: undefined is the empty set, a value v is {v}      *)
(* ------------------------------------------------------------------ *)

None == {}

Some(v) == {v}

\* a ?? b  (also a destructuring default: { retries = 2 } = config)
Coalesce(opt, dflt) == IF opt = None THEN dflt ELSE CHOOSE v \in opt : TRUE

(* ------------------------------------------------------------------ *)
(* Input domains                                                      *)
(* ------------------------------------------------------------------ *)

Methods == {"GET", "POST", "PUT", "PATCH", "DELETE"}

\* retries?: number -- the type admits negative numbers
RetryValues == -1 .. MaxRetries

\* per-call timeoutMs overrides (3000 is the one checkHealth passes)
CallTimeouts == {3000}

\* response statuses the backend answers with
Statuses == {200, 204, 304, 400, 401, 403, 404, 408, 409, 429, 500, 503, 504}

\* parsed response bodies; the caller's schema accepts only "conforming"
Bodies == {"conforming", "other"}

\* HttpClientConfig values the client is constructed from
ClientConfigs ==
  [retries : {None, Some(0), Some(3)}, timeoutMs : {None}]

(* ------------------------------------------------------------------ *)
(* Pure functions                                                     *)
(* ------------------------------------------------------------------ *)

Min(a, b) == IF a <= b THEN a ELSE b

\* mutant: the `case 404` arm is missing
mapHttpStatusToTRPCCode_No404(status) ==
  CASE status = 400 -> "BAD_REQUEST"
    [] status = 401 -> "UNAUTHORIZED"
    [] status = 403 -> "FORBIDDEN"
    [] status \in {408, 504} -> "TIMEOUT"
    [] OTHER -> "INTERNAL_SERVER_ERROR"

\* mutant: `case 504` does not fall into the TIMEOUT arm
mapHttpStatusToTRPCCode_No504(status) ==
  CASE status = 400 -> "BAD_REQUEST"
    [] status = 401 -> "UNAUTHORIZED"
    [] status = 403 -> "FORBIDDEN"
    [] status = 404 -> "NOT_FOUND"
    [] status = 408 -> "TIMEOUT"
    [] OTHER -> "INTERNAL_SERVER_ERROR"

mapHttpStatusToTRPCCode(status) ==
  CASE status = 400 -> "BAD_REQUEST"
    [] status = 401 -> "UNAUTHORIZED"
    [] status = 403 -> "FORBIDDEN"
    [] status = 404 -> "NOT_FOUND"
    [] status \in {408, 504} -> "TIMEOUT"
    [] OTHER -> "INTERNAL_SERVER_ERROR"

\* response.ok
ResponseOk(status) == status >= 200 /\ status <= 299

\* mutant: only GET counts as idempotent
IsIdempotent_OnlyGet(method) == Coalesce(method, "GET") = "GET"

\* mutant: the idempotency test is dropped
IsIdempotent_Any(method) == Coalesce(method, "GET") \in Methods

\* options.method || 'GET', then ['GET','PUT','DELETE'].includes(..)
IsIdempotent(method) == Coalesce(method, "GET") \in {"GET", "PUT", "DELETE"}

\* mutant: the error code is not looked at
IsRetryable_AnyCode(error) == error.name = "TRPCError"

\* error instanceof TRPCError && ['TIMEOUT','INTERNAL_SERVER_ERROR'].includes(error.code)
IsRetryable(error) ==
  /\ error.name = "TRPCError"
  /\ error.code \in {"TIMEOUT", "INTERNAL_SERVER_ERROR"}

\* mutant: the 2000 ms cap is missing
BackoffMs_Uncapped(att) == 100 * (2 ^ (att - 1))

\* Math.min(100 * Math.pow(2, attempt - 1), 2000)
BackoffMs(att) == Min(100 * (2 ^ (att - 1)), 2000)

\* mutant: `||` in place of `??`, so a per-call 0 falls back to the default
MaxAttemptsOf_Or(optRetries, clientRetries) ==
  (IF optRetries = None \/ optRetries = Some(0)
   THEN clientRetries
   ELSE CHOOSE v \in optRetries : TRUE) + 1

\* (options.retries ?? retries) + 1
MaxAttemptsOf(optRetries, clientRetries) == Coalesce(optRetries, clientRetries) + 1

\* perReqTimeout ?? timeoutMs
DeadlineOf(optTimeout, clientTimeout) == Coalesce(optTimeout, clientTimeout)

\* schema.safeParse(raw).success
SafeParseSuccess(raw) == raw = "conforming"

(* ------------------------------------------------------------------ *)
(* Errors                                                             *)
(* ------------------------------------------------------------------ *)

\* the value of `let lastError: unknown` before any assignment
UndefinedError ==
  [name |-> "undefined", code |-> "", cause |-> "", status |-> 0, attempt |-> 0]

\* new TRPCError({ code, cause }) raised by attempt number att
TRPCError(code, cause, status, att) ==
  [name |-> "TRPCError", code |-> code, cause |-> cause, status |-> status,
   attempt |-> att]

\* an exception thrown by fetch / response.json() / response.text()
Exception(name, att) ==
  [name |-> name, code |-> "", cause |-> "", status |-> 0, attempt |-> att]

\* mutant: the AbortError branch is missing
DoFetchCatch_NoAbortBranch(error) ==
  IF error.name = "TRPCError" THEN error
  ELSE TRPCError("INTERNAL_SERVER_ERROR", error.name, 0, error.attempt)

\* the catch block of doFetch
DoFetchCatch(error) ==
  IF error.name = "TRPCError" THEN error
  ELSE IF error.name = "AbortError"
       THEN TRPCError("TIMEOUT", "", 0, error.attempt)
       ELSE TRPCError("INTERNAL_SERVER_ERROR", error.name, 0, error.attempt)

(* ------------------------------------------------------------------ *)
(* State                                                              *)
(* ------------------------------------------------------------------ *)

VARIABLES
  client,        \* { timeoutMs, retries } bound by createHttpClient
  pc,            \* position of the request call
  options,       \* RequestOptions of the call
  schema,        \* TRUE when a response schema was supplied
  maxAttempts,   \* const maxAttempts
  attempt,       \* loop variable of request
  lastError,     \* let lastError
  timer,         \* the live setTimeout timers of doFetch: the set of their ms
  response,      \* status of the response whose body is being read, else 0
  result,        \* value the call resolved with
  attemptsMade,  \* number of doFetch calls of this request
  waits,         \* the sleep(ms) calls of this request, in order
  env,           \* process.env: the HALOLIGHT_API_*_URL value of each kind
  services,      \* ServiceRegistry.services, in insertion order
  defaultService,\* ServiceRegistry.defaultService
  clientCache,   \* the module-level clientCache
  created,       \* number of clients the registry has constructed
  returned,      \* outcome of the getClient / getDefaultClient call just made
  single,        \* the checkHealth call in progress
  allHealth,     \* the checkAllHealth call in progress
  outbound,      \* the downstream call last issued: its inputs, headers, URL
  now,           \* Date.now()
  reply,         \* outcome of the tRPC procedure call last made
  mockFolders,   \* folders.ts: mockFolders
  crumb,         \* the getBreadcrumb call in progress
  mockDocuments, \* documents router: mockDocuments
  mockVersions,  \* documents router: mockVersions
  mockTeams,     \* teams.ts: mockTeams
  mockMembers    \* teams.ts: mockMembers

\* the state of one request call on one client
httpVars == <<client, pc, options, schema, maxAttempts, attempt, lastError,
              timer, response, result, attemptsMade, waits>>

\* the state of the registry and of its health checks
regVars == <<env, services, defaultService, clientCache, created, returned,
             single, allHealth>>

\* the state of the routers and of the calls made through the context
appVars == <<outbound, now, reply, mockFolders, crumb, mockDocuments,
             mockVersions, mockTeams, mockMembers>>

vars == <<client, pc, options, schema, maxAttempts, attempt, lastError, timer,
          response, result, attemptsMade, waits, env, services, defaultService,
          clientCache, created, returned, single, allHealth, outbound, now,
          reply, mockFolders, crumb, mockDocuments, mockVersions, mockTeams,
          mockMembers>>

NoResult == [data |-> "", validated |-> FALSE]

\* createHttpClient: const { timeoutMs = 10000, retries = 2 } = config
createHttpClient(config) ==
  [timeoutMs |-> Coalesce(config.timeoutMs, 10000),
   retries   |-> Coalesce(config.retries, 2)]

(* ------------------------------------------------------------------ *)
(* Service registry: configuration                                    *)
(* ------------------------------------------------------------------ *)

\* largest number of clients the registry constructs in one behaviour
MaxClients == 3

\* Object.keys(ENV_VAR_MAP), in key order
KindOrder == <<"python", "bun", "java", "nestjs", "node", "go">>

\* ServiceKind
Kinds == {KindOrder[i] : i \in 1 .. Len(KindOrder)}

ENV_VAR_MAP ==
  [python |-> "HALOLIGHT_API_PYTHON_URL",
   bun    |-> "HALOLIGHT_API_BUN_URL",
   java   |-> "HALOLIGHT_API_JAVA_URL",
   nestjs |-> "HALOLIGHT_API_NESTJS_URL",
   node   |-> "HALOLIGHT_API_NODE_URL",
   go     |-> "HALOLIGHT_API_GO_URL"]

DEFAULT_PRIORITY ==
  [nestjs |-> 1, python |-> 2, bun |-> 3, java |-> 4, node |-> 5, go |-> 6]

DEFAULT_HEALTH_PATH == "/health"

\* a string of process.env: some text followed by `slashes` trailing '/'
EnvStrings ==
  {[text |-> "", slashes |-> 0],
   [text |-> "http://a", slashes |-> 1],
   [text |-> "http://b", slashes |-> 0]}

\* the values process.env[..] can have: undefined or a string
EnvValues == {None} \cup {Some(str) : str \in EnvStrings}

\* the values the variable of kind takes in the model: every value for
\* python, unset or "http://a/" for the other kinds
EnvValuesOf(kind) ==
  IF kind = "python" THEN EnvValues
  ELSE {None, Some([text |-> "http://a", slashes |-> 1])}

\* if (baseUrl): undefined and the empty string are falsy
Truthy(value) ==
  /\ value # None
  /\ \E str \in value : str.text # "" \/ str.slashes > 0

\* baseUrl.endsWith('/') ? baseUrl.slice(0, -1) : baseUrl
StripSlash(str) ==
  IF str.slashes > 0 THEN [str EXCEPT !.slashes = @ - 1] ELSE str

\* the ServiceConfig loadServices builds for kind
ServiceConfigOf(kind, environment) ==
  [name       |-> kind,
   baseUrl    |-> StripSlash(CHOOSE str \in environment[kind] : TRUE),
   healthPath |-> Some(DEFAULT_HEALTH_PATH),
   priority   |-> Some(DEFAULT_PRIORITY[kind])]

\* loadServices(): the Map as the sequence of its values in insertion order
loadServices(environment) ==
  LET set == SelectSeq(KindOrder, LAMBDA kind : Truthy(environment[kind]))
  IN [i \in 1 .. Len(set) |-> ServiceConfigOf(set[i], environment)]

\* this.services.has(name)
hasService(svcs, name) == \E i \in 1 .. Len(svcs) : svcs[i].name = name

\* this.services.get(name), for a name the map has
getServiceConfig(svcs, name) ==
  svcs[CHOOSE i \in 1 .. Len(svcs) : svcs[i].name = name]

\* Array.from(this.services.keys())
ServiceKeys(svcs) == {svcs[i].name : i \in 1 .. Len(svcs)}

\* a.priority ?? 99
PriorityOf(config) == Coalesce(config.priority, 99)

\* mutant: the comparator is reversed (b - a)
findDefaultService_Descending(svcs) ==
  IF Len(svcs) = 0 THEN None
  ELSE LET first == CHOOSE i \in 1 .. Len(svcs) :
                      \A j \in 1 .. Len(svcs) :
                        \/ PriorityOf(svcs[i]) > PriorityOf(svcs[j])
                        \/ (PriorityOf(svcs[i]) = PriorityOf(svcs[j]) /\ i <= j)
       IN Some(svcs[first].name)

\* findDefaultService(): the stable ascending sort by priority puts first the
\* earliest entry among those of least priority
findDefaultService(svcs) ==
  IF Len(svcs) = 0 THEN None
  ELSE LET first == CHOOSE i \in 1 .. Len(svcs) :
                      \A j \in 1 .. Len(svcs) :
                        \/ PriorityOf(svcs[i]) < PriorityOf(svcs[j])
                        \/ (PriorityOf(svcs[i]) = PriorityOf(svcs[j]) /\ i <= j)
       IN Some(svcs[first].name)

\* the overrides a caller passes to getClient: none, {}, { retries: 0 }
Overrides ==
  {None} \cup {Some([retries |-> r, timeoutMs |-> None]) : r \in {None, Some(0)}}

\* createHttpClient({ baseUrl, timeoutMs: 10000, retries: 2, ...options }),
\* the id-th client the registry constructs
RegistryClient(id, service, overrides) ==
  LET opts == Coalesce(overrides, [retries |-> None, timeoutMs |-> None])
  IN [id      |-> id,
      baseUrl |-> service.baseUrl,
      http    |-> createHttpClient(
                    [retries   |-> Some(Coalesce(opts.retries, 2)),
                     timeoutMs |-> Some(Coalesce(opts.timeoutMs, 10000))])]

\* mutant: the message does not name the environment variable
NotConfiguredError_NoVariable(name) ==
  <<"Service", name, "is not configured.">>

\* the Error getClient throws for a name that is not configured
NotConfiguredError(name) ==
  <<"Service", name, "is not configured. Set", ENV_VAR_MAP[name],
    "environment variable.">>

\* the Error getDefaultClient throws when there is no default service
NoServicesError ==
  <<"No backend services configured. Set at least one HALOLIGHT_API_*_URL.">>

\* the operation just performed was no getClient / getDefaultClient call
NoReturn == [kind |-> "none", client |-> None, error |-> <<>>]

\* no checkHealth call in progress
IdleSingle == [pc |-> "idle", name |-> "", result |-> None]

\* no checkAllHealth call in progress
IdleAllHealth ==
  [pc |-> "idle", keys |-> {}, started |-> {}, results |-> [k \in Kinds |-> None]]

\* the environments in which only the kinds of `kinds` may be set
Environments(kinds) ==
  {e \in [Kinds -> EnvValues] :
     \A k \in Kinds : e[k] \in (IF k \in kinds THEN EnvValuesOf(k) ELSE {None})}

\* new ServiceRegistry() in environment `environment`, the cache being empty
RegistryInit(environment) ==
  /\ env = environment
  /\ services = loadServices(environment)
  /\ defaultService = findDefaultService(loadServices(environment))
  /\ clientCache = [k \in Kinds |-> None]
  /\ created = 0
  /\ returned = NoReturn
  /\ single = IdleSingle
  /\ allHealth = IdleAllHealth

(* ------------------------------------------------------------------ *)
(* Routers: the in-memory stores at module load                       *)
(* ------------------------------------------------------------------ *)

\* largest value the clock Date.now() reaches in one behaviour
MaxClock == 1

\* no downstream call has been issued yet
NoOutbound == [op |-> "none"]

\* no procedure has been called yet
NoReply ==
  [proc |-> "none", input |-> "", code |-> "none", ran |-> FALSE, user |-> None]

\* mockFolders: id, name and parentId of each folder (path, itemCount, the
\* timestamps and createdBy are read by no condition of a handler)
MockFolders ==
  << [id |-> "folder-root",      name |-> "Root",      parentId |-> None],
     [id |-> "folder-documents", name |-> "Documents",
      parentId |-> Some("folder-root")],
     [id |-> "folder-images",    name |-> "Images",
      parentId |-> Some("folder-root")],
     [id |-> "folder-projects",  name |-> "Projects",
      parentId |-> Some("folder-root")],
     [id |-> "folder-specs",     name |-> "Specs",
      parentId |-> Some("folder-documents")],
     [id |-> "folder-reports",   name |-> "Reports",
      parentId |-> Some("folder-documents")] >>

\* getBreadcrumb is not running
IdleCrumb == [pc |-> "idle", current |-> None, breadcrumb |-> <<>>]

\* mockDocuments: id and content of each document (title, folderId, status,
\* tags, owner and the timestamps are read by no condition of a handler)
MockDocuments ==
  << [id |-> "doc-1", content |-> "overview"],
     [id |-> "doc-2", content |-> "api"],
     [id |-> "doc-3", content |-> "notes"],
     [id |-> "doc-4", content |-> "content-4"],
     [id |-> "doc-5", content |-> "content-5"],
     [id |-> "doc-6", content |-> "content-6"],
     [id |-> "doc-7", content |-> "content-7"],
     [id |-> "doc-8", content |-> "content-8"] >>

\* mockVersions: the three versions of doc-1
MockVersions ==
  << [documentId |-> "doc-1", version |-> 1, content |-> "overview-draft"],
     [documentId |-> "doc-1", version |-> 2, content |-> "overview-architecture"],
     [documentId |-> "doc-1", version |-> 3, content |-> "overview"] >>

\* mockTeams: id, name and memberCount of each team
MockTeams ==
  << [id |-> "team-engineering", name |-> "Engineering", memberCount |-> 8,
      creator |-> None],
     [id |-> "team-design",      name |-> "Design",      memberCount |-> 4,
      creator |-> None],
     [id |-> "team-marketing",   name |-> "Marketing",   memberCount |-> 5,
      creator |-> None] >>

\* role: i === 0 ? 'owner' : i < 3 ? 'admin' : 'member'
EngineeringMembers ==
  [i \in 1 .. 8 |->
     [userId |-> CASE i = 1 -> "user-1" [] i = 2 -> "user-2" [] i = 3 -> "user-3"
                   [] i = 4 -> "user-4" [] i = 5 -> "user-5" [] i = 6 -> "user-6"
                   [] i = 7 -> "user-7" [] i = 8 -> "user-8",
      role   |-> IF i = 1 THEN "owner" ELSE IF i <= 3 THEN "admin" ELSE "member"]]

\* role: i === 0 ? 'owner' : 'member'
DesignMembers ==
  [i \in 1 .. 4 |->
     [userId |-> CASE i = 1 -> "user-10" [] i = 2 -> "user-11"
                   [] i = 3 -> "user-12" [] i = 4 -> "user-13",
      role   |-> IF i = 1 THEN "owner" ELSE "member"]]

\* mockMembers: the member list of each team that has one
MockMembers ==
  [id \in {"team-engineering", "team-design"} |->
     IF id = "team-engineering" THEN EngineeringMembers ELSE DesignMembers]

\* the environment of the behaviours of Spec: one backend, python
PythonOnly ==
  [k \in Kinds |->
     IF k = "python" THEN Some([text |-> "http://a", slashes |-> 1]) ELSE None]

\* the routers' modules have been loaded and no request was served yet
AppInit ==
  /\ outbound = NoOutbound
  /\ now = 0
  /\ reply = NoReply
  /\ mockFolders = MockFolders
  /\ crumb = IdleCrumb
  /\ mockDocuments = MockDocuments
  /\ mockVersions = MockVersions
  /\ mockTeams = MockTeams
  /\ mockMembers = MockMembers

\* the client and the registry at rest, no call made on them
ClientInit ==
  /\ RegistryInit(PythonOnly)
  /\ client = createHttpClient([retries |-> None, timeoutMs |-> None])
  /\ pc = "idle"
  /\ options = [method |-> None, retries |-> None, timeoutMs |-> None]
  /\ schema = FALSE
  /\ maxAttempts = 0
  /\ attempt = 0
  /\ lastError = UndefinedError
  /\ timer = None
  /\ response = 0
  /\ result = NoResult
  /\ attemptsMade = 0
  /\ waits = <<>>

Init ==
  /\ RegistryInit(PythonOnly)
  /\ client \in {createHttpClient(c) : c \in ClientConfigs}
  /\ pc = "idle"
  /\ options = [method |-> None, retries |-> None, timeoutMs |-> None]
  /\ schema = FALSE
  /\ maxAttempts = 0
  /\ attempt = 0
  /\ lastError = UndefinedError
  /\ timer = None
  /\ response = 0
  /\ result = NoResult
  /\ attemptsMade = 0
  /\ waits = <<>>
  /\ AppInit

(* ------------------------------------------------------------------ *)
(* request: the retry loop                                            *)
(* ------------------------------------------------------------------ *)

\* the loop head `attempt <= maxAttempts` for loop value att, followed by
\* the synchronous part of doFetch (controller, timer, fetch issued) or by
\* `throw lastError` when the loop is left
LoopHead(att, maxAtt, opts, made, lastErr) ==
  /\ attempt' = att
  /\ lastError' = lastErr
  /\ response' = 0
  /\ IF att <= maxAtt
     THEN /\ pc' = "fetch"
          /\ timer' = timer \cup Some(DeadlineOf(opts.timeoutMs, client.timeoutMs))
          /\ attemptsMade' = made + 1
     ELSE /\ pc' = "rejected"
          /\ timer' = timer
          /\ attemptsMade' = made

\* request(options, schema) is entered on the client
RequestCall(method, retries, timeoutMs, withSchema) ==
  /\ pc = "idle"
  /\ options' = [method |-> method, retries |-> retries, timeoutMs |-> timeoutMs]
  /\ schema' = withSchema
  /\ maxAttempts' = MaxAttemptsOf(retries, client.retries)
  /\ result' = NoResult
  /\ waits' = <<>>
  /\ LoopHead(1, MaxAttemptsOf(retries, client.retries), options', 0, UndefinedError)
  /\ UNCHANGED client

\* request(options, schema) is called by a router
Request(method, retries, timeoutMs, withSchema) ==
  /\ single.pc = "idle"
  /\ RequestCall(method, retries, timeoutMs, withSchema)
  /\ UNCHANGED <<regVars, appVars>>

\* mutant: the finally block of doFetch does not clear the deadline timer
AttemptFails_NoClearTimeout(thrown) ==
  LET error == DoFetchCatch(thrown)
      isLastAttempt == attempt = maxAttempts
      isIdempotent == IsIdempotent(options.method)
      isRetryable == IsRetryable(error)
  IN /\ timer' = timer
     /\ lastError' = error
     /\ response' = 0
     /\ IF isLastAttempt \/ ~isRetryable \/ ~isIdempotent
        THEN /\ pc' = "rejected"
             /\ waits' = waits
        ELSE /\ pc' = "sleep"
             /\ waits' = Append(waits, BackoffMs(attempt))
     /\ UNCHANGED <<client, options, schema, maxAttempts, attempt, result,
                    attemptsMade>>
     /\ UNCHANGED <<regVars, appVars>>

\* doFetch throws `thrown` inside its try block: catch, finally, then the
\* catch block of request
AttemptFails(thrown) ==
  LET error == DoFetchCatch(thrown)
      isLastAttempt == attempt = maxAttempts
      isIdempotent == IsIdempotent(options.method)
      isRetryable == IsRetryable(error)
  IN /\ timer' = None
     /\ lastError' = error
     /\ response' = 0
     /\ IF isLastAttempt \/ ~isRetryable \/ ~isIdempotent
        THEN /\ pc' = "rejected"
             /\ waits' = waits
        ELSE /\ pc' = "sleep"
             /\ waits' = Append(waits, BackoffMs(attempt))
     /\ UNCHANGED <<client, options, schema, maxAttempts, attempt, result,
                    attemptsMade>>
     /\ UNCHANGED <<regVars, appVars>>

\* doFetch returns `value`: finally, then `return await doFetch(..)`
AttemptReturns(value) ==
  /\ timer' = None
  /\ pc' = "resolved"
  /\ result' = value
  /\ response' = 0
  /\ UNCHANGED <<client, options, schema, maxAttempts, attempt, lastError,
                 attemptsMade, waits>>
  /\ UNCHANGED <<regVars, appVars>>

\* sleep(backoffMs) resolves: attempt++, loop head, next doFetch
SleepDone ==
  /\ pc = "sleep"
  /\ LoopHead(attempt + 1, maxAttempts, options, attemptsMade, lastError)
  /\ UNCHANGED <<client, options, schema, maxAttempts, result, waits>>
  /\ UNCHANGED <<regVars, appVars>>

\* the settled promise's value or error has been taken; the locals of the
\* call are gone and the client is ready for the next call
ForgetCall ==
  /\ pc' = "idle"
  /\ options' = [method |-> None, retries |-> None, timeoutMs |-> None]
  /\ schema' = FALSE
  /\ maxAttempts' = 0
  /\ attempt' = 0
  /\ lastError' = UndefinedError
  /\ result' = NoResult
  /\ attemptsMade' = 0
  /\ waits' = <<>>
  /\ UNCHANGED <<client, timer, response>>

\* a router's call has settled
CallSettled ==
  /\ pc \in {"resolved", "rejected"}
  /\ single.pc = "idle"
  /\ ForgetCall
  /\ UNCHANGED <<regVars, appVars>>

(* ------------------------------------------------------------------ *)
(* doFetch: one attempt                                               *)
(* ------------------------------------------------------------------ *)

\* fetch resolves with a response; the body read is started
FetchResolves(status) ==
  /\ pc = "fetch"
  /\ pc' = "body"
  /\ response' = status
  /\ UNCHANGED <<client, options, schema, maxAttempts, attempt, lastError,
                 timer, result, attemptsMade, waits>>
  /\ UNCHANGED <<regVars, appVars>>

\* fetch rejects with a transport exception
FetchThrows ==
  /\ pc = "fetch"
  /\ AttemptFails(Exception("TypeError", attemptsMade))

\* mutant: a body that fails the schema is returned all the same
BodyRead_ReturnsUnvalidated(raw) ==
  /\ pc = "body"
  /\ IF ~ResponseOk(response)
     THEN AttemptFails(TRPCError(mapHttpStatusToTRPCCode(response), "status",
                                 response, attemptsMade))
     ELSE AttemptReturns([data |-> raw, validated |-> schema])

\* response.json() / response.text() resolves with raw
BodyRead(raw) ==
  /\ pc = "body"
  /\ IF ~ResponseOk(response)
     THEN AttemptFails(TRPCError(mapHttpStatusToTRPCCode(response), "status",
                                 response, attemptsMade))
     ELSE IF ~schema
          THEN AttemptReturns([data |-> raw, validated |-> FALSE])
          ELSE IF ~SafeParseSuccess(raw)
               THEN AttemptFails(TRPCError("INTERNAL_SERVER_ERROR", "validation",
                                           0, attemptsMade))
               ELSE AttemptReturns([data |-> raw, validated |-> TRUE])

\* response.json() / response.text() rejects (malformed JSON, broken stream)
BodyThrows(name) ==
  /\ pc = "body"
  /\ AttemptFails(Exception(name, attemptsMade))

\* the deadline timer fires: controller.abort(); the pending await rejects
\* with an AbortError
DeadlineExpires ==
  /\ pc \in {"fetch", "body"}
  /\ timer # None
  /\ AttemptFails(Exception("AbortError", attemptsMade))

(* ------------------------------------------------------------------ *)
(* Service registry: getClient, getDefaultClient, reload              *)
(* ------------------------------------------------------------------ *)

\* a returned client / a thrown Error
ReturnClient(c) == [kind |-> "client", client |-> c, error |-> <<>>]

ThrowError(message) == [kind |-> "error", client |-> None, error |-> message]

\* mutant: `if (!options)` is missing, a client built with overrides is cached
GetClientCall_CachesOverrides(name, overrides) ==
  LET cached == clientCache[name]
  IN IF cached # None /\ overrides = None
     THEN /\ returned' = ReturnClient(cached)
          /\ UNCHANGED <<clientCache, created>>
     ELSE IF ~hasService(services, name)
          THEN /\ returned' = ThrowError(NotConfiguredError(name))
               /\ UNCHANGED <<clientCache, created>>
          ELSE LET c == RegistryClient(created + 1,
                                       getServiceConfig(services, name), overrides)
               IN /\ created < MaxClients
                  /\ created' = created + 1
                  /\ returned' = ReturnClient(Some(c))
                  /\ clientCache' = [clientCache EXCEPT ![name] = Some(c)]

\* the body of getClient(name, options): its effect on the cache and its outcome
GetClientCall(name, overrides) ==
  LET cached == clientCache[name]
  IN IF cached # None /\ overrides = None
     THEN /\ returned' = ReturnClient(cached)
          /\ UNCHANGED <<clientCache, created>>
     ELSE IF ~hasService(services, name)
          THEN /\ returned' = ThrowError(NotConfiguredError(name))
               /\ UNCHANGED <<clientCache, created>>
          ELSE LET c == RegistryClient(created + 1,
                                       getServiceConfig(services, name), overrides)
               IN /\ created < MaxClients
                  /\ created' = created + 1
                  /\ returned' = ReturnClient(Some(c))
                  /\ clientCache' = IF overrides = None
                                    THEN [clientCache EXCEPT ![name] = Some(c)]
                                    ELSE clientCache

\* serviceRegistry.getClient(name, options)
getClient(name, overrides) ==
  /\ GetClientCall(name, overrides)
  /\ UNCHANGED <<env, services, defaultService, single, allHealth>>
  /\ UNCHANGED <<httpVars, appVars>>

\* serviceRegistry.getDefaultClient(options)
getDefaultClient(overrides) ==
  /\ IF defaultService = None
     THEN /\ returned' = ThrowError(NoServicesError)
          /\ UNCHANGED <<clientCache, created>>
     ELSE GetClientCall(CHOOSE name \in defaultService : TRUE, overrides)
  /\ UNCHANGED <<env, services, defaultService, single, allHealth>>
  /\ UNCHANGED <<httpVars, appVars>>

\* mutant: clientCache.clear() is missing
reload_KeepsCache(kind, value) ==
  /\ env' = [env EXCEPT ![kind] = value]
  /\ clientCache' = clientCache
  /\ services' = loadServices(env')
  /\ defaultService' = findDefaultService(services')
  /\ returned' = NoReturn
  /\ UNCHANGED <<created, single, allHealth>>
  /\ UNCHANGED <<httpVars, appVars>>

\* mutant: the default is recomputed before the config map is replaced
reload_DefaultBeforeLoad(kind, value) ==
  /\ env' = [env EXCEPT ![kind] = value]
  /\ clientCache' = [k \in Kinds |-> None]
  /\ services' = loadServices(env')
  /\ defaultService' = findDefaultService(services)
  /\ returned' = NoReturn
  /\ UNCHANGED <<created, single, allHealth>>
  /\ UNCHANGED <<httpVars, appVars>>

\* serviceRegistry.reload(), run after process.env[ENV_VAR_MAP[kind]] was set
\* to value (or deleted); nothing but loadServices reads the environment
reload(kind, value) ==
  /\ env' = [env EXCEPT ![kind] = value]
  /\ clientCache' = [k \in Kinds |-> None]
  /\ services' = loadServices(env')
  /\ defaultService' = findDefaultService(services')
  /\ returned' = NoReturn
  /\ UNCHANGED <<created, single, allHealth>>
  /\ UNCHANGED <<httpVars, appVars>>

\* the registry with its synchronous operations
InitRegistry ==
  /\ \E e \in Environments(Kinds) : RegistryInit(e)
  /\ client = createHttpClient([retries |-> None, timeoutMs |-> None])
  /\ pc = "idle"
  /\ options = [method |-> None, retries |-> None, timeoutMs |-> None]
  /\ schema = FALSE
  /\ maxAttempts = 0
  /\ attempt = 0
  /\ lastError = UndefinedError
  /\ timer = None
  /\ response = 0
  /\ result = NoResult
  /\ attemptsMade = 0
  /\ waits = <<>>
  /\ AppInit

NextRegistry ==
  \/ \E name \in Kinds, o \in Overrides : getClient(name, o)
  \/ \E o \in Overrides : getDefaultClient(o)
  \/ \E kind \in Kinds : \E value \in EnvValuesOf(kind) : reload(kind, value)

SpecRegistry == InitRegistry /\ [][NextRegistry]_vars

(* ------------------------------------------------------------------ *)
(* Service registry: checkHealth, checkAllHealth                      *)
(* ------------------------------------------------------------------ *)

\* the kinds the environment sets in the behaviours of SpecHealth
HealthKinds == {"nestjs", "python", "go"}

\* Date.now() - start, as the clock gives it
ElapsedValues == {0, 3000}

\* { healthy: false, latencyMs: -1 }
NotConfiguredHealth == [healthy |-> FALSE, latencyMs |-> -1]

\* the value checkHealth returns after client.get settled: from the try block
\* when it resolved, from the catch block when it rejected
HealthResult(succeeded, elapsed) == [healthy |-> succeeded, latencyMs |-> elapsed]

\* checkHealth(name) up to its first await: the lookup, getClient(name) and
\* the GET being issued
CheckHealthEntry(name) ==
  IF ~hasService(services, name)
  THEN /\ single' = [pc |-> "resolved", name |-> name,
                     result |-> Some(NotConfiguredHealth)]
       /\ returned' = NoReturn
       /\ UNCHANGED <<clientCache, created>>
  ELSE /\ GetClientCall(name, None)
       /\ single' = [pc |-> "pending", name |-> name, result |-> None]

\* serviceRegistry.checkHealth(name) is called
checkHealth(name) ==
  /\ single.pc = "idle"
  /\ allHealth.pc = "idle"
  /\ CheckHealthEntry(name)
  /\ UNCHANGED <<env, services, defaultService, allHealth>>
  /\ UNCHANGED <<httpVars, appVars>>

\* the GET of checkHealth settles: resolved (succeeded) or rejected
HealthGetSettles(succeeded, elapsed) ==
  /\ single.pc = "pending"
  /\ single' = [single EXCEPT !.pc = "resolved",
                              !.result = Some(HealthResult(succeeded, elapsed))]
  /\ UNCHANGED <<env, services, defaultService, clientCache, created, returned,
                 allHealth>>
  /\ UNCHANGED <<httpVars, appVars>>

\* the caller of checkHealth has taken its result; the locals of its GET,
\* if it made one, are gone
HealthReturned ==
  /\ single.pc = "resolved"
  /\ single' = IdleSingle
  /\ ForgetCall
  /\ UNCHANGED <<env, services, defaultService, clientCache, created, returned,
                 allHealth>>
  /\ UNCHANGED appVars

\* mutant: the GET of checkHealth keeps the client's retries and deadline
HealthCheckOptions_ClientDefaults ==
  [method |-> Some("GET"), retries |-> None, timeoutMs |-> None]

\* client.get(path, { timeoutMs: 3000, retries: 0 })
HealthCheckOptions ==
  [method |-> Some("GET"), retries |-> Some(0), timeoutMs |-> Some(3000)]

\* serviceRegistry.checkHealth(name) is called, its GET followed attempt by
\* attempt; the GET runs on the client getClient(name) returns, so the call
\* is followed where `client` is that client
CheckHealthStart(name) ==
  /\ single.pc = "idle"
  /\ allHealth.pc = "idle"
  /\ pc = "idle"
  /\ CheckHealthEntry(name)
  /\ IF hasService(services, name)
     THEN /\ \A c \in returned'.client : client = c.http
          /\ RequestCall(HealthCheckOptions.method, HealthCheckOptions.retries,
                         HealthCheckOptions.timeoutMs, FALSE)
     ELSE UNCHANGED httpVars
  /\ UNCHANGED <<env, services, defaultService, allHealth>>
  /\ UNCHANGED appVars

\* mutant: the catch block of checkHealth is missing, a failed GET rejects
HealthRequestSettles_NoCatch(elapsed) ==
  /\ single.pc = "pending"
  /\ pc \in {"resolved", "rejected"}
  /\ single' = IF pc = "resolved"
                THEN [single EXCEPT !.pc = "resolved",
                                    !.result = Some(HealthResult(TRUE, elapsed))]
                ELSE [single EXCEPT !.pc = "rejected"]
  /\ UNCHANGED <<env, services, defaultService, clientCache, created, returned,
                 allHealth>>
  /\ UNCHANGED <<httpVars, appVars>>

\* the GET of checkHealth has settled: the try block returns healthy: true,
\* the catch block healthy: false
HealthRequestSettles(elapsed) ==
  /\ single.pc = "pending"
  /\ pc \in {"resolved", "rejected"}
  /\ single' = [single EXCEPT
                  !.pc = "resolved",
                  !.result = Some(HealthResult(pc = "resolved", elapsed))]
  /\ UNCHANGED <<env, services, defaultService, clientCache, created, returned,
                 allHealth>>
  /\ UNCHANGED <<httpVars, appVars>>

\* number of services among the first i that have no cached client
Uncached(i) ==
  Cardinality({j \in 1 .. i : clientCache[services[j].name] = None})

\* the cache after getClient(name) was called for every key in order
CacheAfterChecks ==
  [k \in Kinds |->
     IF hasService(services, k) /\ clientCache[k] = None
     THEN LET i == CHOOSE j \in 1 .. Len(services) : services[j].name = k
          IN Some(RegistryClient(created + Uncached(i), services[i], None))
     ELSE clientCache[k]]

\* mutant: the checks run one after the other, only the first is started
checkAllHealth_OneAtATime ==
  /\ single.pc = "idle"
  /\ allHealth.pc = "idle"
  /\ created + Uncached(Len(services)) <= MaxClients
  /\ created' = created + Uncached(Len(services))
  /\ clientCache' = CacheAfterChecks
  /\ returned' = NoReturn
  /\ allHealth' = [pc |-> "waiting", keys |-> ServiceKeys(services),
                   started |-> {services[i].name : i \in 1 .. Min(1, Len(services))},
                   results |-> [k \in Kinds |-> None]]
  /\ UNCHANGED <<env, services, defaultService, single>>
  /\ UNCHANGED <<httpVars, appVars>>

\* serviceRegistry.checkAllHealth() up to its await: the map callback calls
\* checkHealth(name) for every key, each running to its own first await
checkAllHealth ==
  /\ single.pc = "idle"
  /\ allHealth.pc = "idle"
  /\ created + Uncached(Len(services)) <= MaxClients
  /\ created' = created + Uncached(Len(services))
  /\ clientCache' = CacheAfterChecks
  /\ returned' = NoReturn
  /\ allHealth' = [pc |-> "waiting", keys |-> ServiceKeys(services),
                   started |-> ServiceKeys(services),
                   results |-> [k \in Kinds |-> None]]
  /\ UNCHANGED <<env, services, defaultService, single>>
  /\ UNCHANGED <<httpVars, appVars>>

\* the GET of one of the checks settles: results[name] = await checkHealth(name)
AllHealthCheckSettles(name, succeeded, elapsed) ==
  /\ allHealth.pc = "waiting"
  /\ name \in allHealth.started
  /\ allHealth.results[name] = None
  /\ allHealth' = [allHealth EXCEPT
                     !.results[name] = Some(HealthResult(succeeded, elapsed))]
  /\ UNCHANGED <<env, services, defaultService, clientCache, created, returned,
                 single>>
  /\ UNCHANGED <<httpVars, appVars>>

\* mutant: Promise.race in place of Promise.all
AllHealthResolves_First ==
  /\ allHealth.pc = "waiting"
  /\ \/ allHealth.started = {}
     \/ \E name \in allHealth.started : allHealth.results[name] # None
  /\ allHealth' = [allHealth EXCEPT !.pc = "resolved"]
  /\ UNCHANGED <<env, services, defaultService, clientCache, created, returned,
                 single>>
  /\ UNCHANGED <<httpVars, appVars>>

\* Promise.all resolves: every callback has stored its result
AllHealthResolves ==
  /\ allHealth.pc = "waiting"
  /\ \A name \in allHealth.started : allHealth.results[name] # None
  /\ allHealth' = [allHealth EXCEPT !.pc = "resolved"]
  /\ UNCHANGED <<env, services, defaultService, clientCache, created, returned,
                 single>>
  /\ UNCHANGED <<httpVars, appVars>>

\* the caller of checkAllHealth has taken the results
AllHealthReturned ==
  /\ allHealth.pc = "resolved"
  /\ allHealth' = IdleAllHealth
  /\ UNCHANGED <<env, services, defaultService, clientCache, created, returned,
                 single>>
  /\ UNCHANGED <<httpVars, appVars>>

\* the registry with its health checks, reload running between their steps
InitHealth ==
  /\ \E e \in Environments(HealthKinds) : RegistryInit(e)
  /\ client = createHttpClient([retries |-> None, timeoutMs |-> None])
  /\ pc = "idle"
  /\ options = [method |-> None, retries |-> None, timeoutMs |-> None]
  /\ schema = FALSE
  /\ maxAttempts = 0
  /\ attempt = 0
  /\ lastError = UndefinedError
  /\ timer = None
  /\ response = 0
  /\ result = NoResult
  /\ attemptsMade = 0
  /\ waits = <<>>
  /\ AppInit

NextHealth ==
  \/ \E name \in Kinds, o \in Overrides : getClient(name, o)
  \/ \E o \in Overrides : getDefaultClient(o)
  \/ \E kind \in HealthKinds : \E value \in EnvValuesOf(kind) : reload(kind, value)
  \/ \E name \in Kinds : checkHealth(name)
  \/ \E succeeded \in BOOLEAN, elapsed \in ElapsedValues :
       HealthGetSettles(succeeded, elapsed)
  \/ HealthReturned
  \/ checkAllHealth
  \/ \E name \in Kinds, succeeded \in BOOLEAN, elapsed \in ElapsedValues :
       AllHealthCheckSettles(name, succeeded, elapsed)
  \/ AllHealthResolves
  \/ AllHealthReturned

SpecHealth == InitHealth /\ [][NextHealth]_vars

\* the routers are loaded, client and registry at rest, no request served
InitRouters == ClientInit /\ AppInit

(* ------------------------------------------------------------------ *)
(* doFetch: the headers and the URL of an attempt; createContext      *)
(* ------------------------------------------------------------------ *)

\* largest number of slashes at the end of a base URL or the start of a path
MaxSlashes == 2

\* the header names the calls of the model use
HeaderNames ==
  {"Content-Type", "Accept", "Authorization", "X-Trace-Id", "X-Request-Id"}

\* {}: a Record<string, string> without keys; a header value is a sequence
\* of the words of its text
NoHeaders == [h \in HeaderNames |-> None]

\* { ...a, ...b }
Spread(a, b) == [h \in HeaderNames |-> IF b[h] # None THEN b[h] ELSE a[h]]

\* if (text): a string is truthy unless empty
TruthyString(text) == text # ""

\* `Bearer ${token}`
Bearer(token) == <<"Bearer", token>>

\* 'application/json'
Json == <<"application/json">>

\* the first value of an optional string that is given and not empty
TruthyOf(opt) == {v \in opt : TruthyString(v)}

\* requestHeaders of doFetch for the client's defaultHeaders and the call's
\* headers, token and traceId
RequestHeaders(defaultHeaders, opts) ==
  LET baseline == [NoHeaders EXCEPT !["Content-Type"] = Some(Json),
                                    !["Accept"] = Some(Json)]
      merged == Spread(Spread(baseline, defaultHeaders),
                       Coalesce(opts.headers, NoHeaders))
      withToken ==
        IF TruthyOf(opts.token) # {}
        THEN [merged EXCEPT !["Authorization"] =
                {Bearer(t) : t \in TruthyOf(opts.token)}]
        ELSE merged
  IN IF TruthyOf(opts.traceId) # {}
     THEN [withToken EXCEPT
             !["X-Trace-Id"] = {<<t>> : t \in TruthyOf(opts.traceId)},
             !["X-Request-Id"] = {<<t>> : t \in TruthyOf(opts.traceId)}]
     ELSE withToken

\* a string of n slashes
Slashes(n) == [i \in 1 .. n |-> "/"]

\* text.endsWith('/') / text.startsWith('/'), a text being the sequence of
\* its pieces, each slash a piece
EndsWithSlash(text) == Len(text) > 0 /\ text[Len(text)] = "/"

StartsWithSlash(text) == Len(text) > 0 /\ text[1] = "/"

\* String(value) of a query value
String(value) == value.text

\* the query entries buildUrl sets: url.searchParams.set(key, String(value))
\* for each entry whose value is not undefined
SearchParams(query) ==
  LET entries == Coalesce(query, <<>>)
      kept == SelectSeq(entries, LAMBDA e : e.value.type # "undefined")
  IN [i \in 1 .. Len(kept) |-> <<kept[i].key, String(kept[i].value)>>]

\* buildUrl(path, query) on a client of base URL baseUrl; new URL() keeps the
\* path of these URLs as written
buildUrl(baseUrl, path, query) ==
  LET base == IF EndsWithSlash(baseUrl)
              THEN SubSeq(baseUrl, 1, Len(baseUrl) - 1) ELSE baseUrl
      normalizedPath == IF StartsWithSlash(path) THEN path ELSE <<"/">> \o path
  IN [href |-> base \o normalizedPath, search |-> SearchParams(query)]

\* header objects a caller passes: no name, one name or every name set to
\* another value
HeaderObjects ==
  {hs \in [HeaderNames -> {None, Some(<<"other">>)}] :
     Cardinality({h \in HeaderNames : hs[h] # None}) \in {0, 1, 5}}

\* query values: undefined, a string, a number, a boolean
QueryValues ==
  { [type |-> "undefined", text |-> "undefined"],
    [type |-> "string",    text |-> "a"],
    [type |-> "number",    text |-> "1"],
    [type |-> "boolean",   text |-> "true"] }

\* query objects over the keys page and q
Queries ==
  {None} \cup
  {Some(q) : q \in
     {<<>>} \cup {<<[key |-> "page", value |-> v]>> : v \in QueryValues}
            \cup {<<[key |-> "page", value |-> v], [key |-> "q", value |-> w]>> :
                    v \in QueryValues, w \in QueryValues}}

\* doFetch issues an attempt on a client made by createHttpClient(config):
\* the headers and the URL handed to fetch
IssueDirect(baseUrl, defaultHeaders, path, query, headers, token, traceId) ==
  /\ outbound = NoOutbound
  /\ outbound' =
       [op       |-> "direct",
        baseUrl  |-> baseUrl,
        defaults |-> defaultHeaders,
        path     |-> path,
        query    |-> query,
        call     |-> [headers |-> headers, token |-> token, traceId |-> traceId],
        inbound  |-> [token |-> None, traceId |-> ""],
        sent     |-> RequestHeaders(defaultHeaders,
                       [headers |-> headers, token |-> token, traceId |-> traceId]),
        url      |-> buildUrl(baseUrl, path, query)]
  /\ UNCHANGED <<now, reply, mockFolders, crumb, mockDocuments, mockVersions,
                 mockTeams, mockMembers>>
  /\ UNCHANGED <<httpVars, regVars>>

\* req.headers.authorization?.split(' ')[1] ?? null, the header being the
\* sequence of the pieces between its spaces (<<>>: no such header)
TokenOf(authorization) ==
  IF Len(authorization) >= 2 THEN Some(authorization[2]) ELSE None

\* x-trace-id || x-request-id || randomUUID()
TraceIdOf(req) ==
  IF TruthyOf(req.xTraceId) # {} THEN CHOOSE t \in TruthyOf(req.xTraceId) : TRUE
  ELSE IF TruthyOf(req.xRequestId) # {}
       THEN CHOOSE t \in TruthyOf(req.xRequestId) : TRUE
       ELSE "uuid-1"

\* the defaultHeaders option ctx.services.get and getDefault pass to the
\* registry
ContextDefaultHeaders(token, traceId) ==
  Spread([NoHeaders EXCEPT !["X-Trace-Id"] = Some(<<traceId>>)],
         IF TruthyOf(token) # {}
         THEN [NoHeaders EXCEPT !["Authorization"] =
                 {Bearer(t) : t \in TruthyOf(token)}]
         ELSE NoHeaders)

\* the Authorization, X-Trace-Id and X-Request-Id headers of the inbound
\* requests
InboundRequests ==
  [authorization : {<<>>, <<"Bearer">>, <<"Bearer", "t1">>,
                    <<"Bearer", "", "t1">>, <<"Basic", "t1">>},
   xTraceId      : {None, Some(""), Some("trace-1")},
   xRequestId    : {None, Some("req-1")}]

\* the headers a router passes with a call on a ctx.services client
RouterHeaders ==
  {None, Some(NoHeaders),
   Some([NoHeaders EXCEPT !["Accept"] = Some(<<"other">>)])}

\* the pieces of a string of process.env
PiecesOf(str) == <<str.text>> \o Slashes(str.slashes)

\* the overrides of ctx.services: default headers only
ContextOverrides == Some([retries |-> None, timeoutMs |-> None])

\* a router handles the inbound request req: createContext, then
\* ctx.services.get(name) (ctx.services.getDefault() when useDefault), then a
\* call on the client with the headers the router passes
IssueThroughContext(req, useDefault, name, path, headers) ==
  LET token == TokenOf(req.authorization)
      traceId == TraceIdOf(req)
      defaults == ContextDefaultHeaders(token, traceId)
      call == [headers |-> headers, token |-> None, traceId |-> None]
  IN /\ outbound = NoOutbound
     /\ IF useDefault
        THEN IF defaultService = None
             THEN /\ returned' = ThrowError(NoServicesError)
                  /\ UNCHANGED <<clientCache, created>>
             ELSE GetClientCall(CHOOSE n \in defaultService : TRUE,
                                ContextOverrides)
        ELSE GetClientCall(name, ContextOverrides)
     /\ outbound' =
          IF returned'.kind = "client"
          THEN LET c == CHOOSE x \in returned'.client : TRUE
               IN [op       |-> "context",
                   baseUrl  |-> PiecesOf(c.baseUrl),
                   defaults |-> defaults,
                   path     |-> path,
                   query    |-> None,
                   call     |-> call,
                   inbound  |-> [token |-> token, traceId |-> traceId],
                   sent     |-> RequestHeaders(defaults, call),
                   url      |-> buildUrl(PiecesOf(c.baseUrl), path, None)]
          ELSE [op |-> "failed"]
     /\ UNCHANGED <<env, services, defaultService, single, allHealth>>
     /\ UNCHANGED <<now, reply, mockFolders, crumb, mockDocuments,
                    mockVersions, mockTeams, mockMembers>>
     /\ UNCHANGED httpVars

\* fetch settles, or the registry threw: the call is over
OutboundSettles ==
  /\ outbound # NoOutbound
  /\ outbound' = NoOutbound
  /\ UNCHANGED <<now, reply, mockFolders, crumb, mockDocuments, mockVersions,
                 mockTeams, mockMembers>>
  /\ UNCHANGED <<httpVars, regVars>>

NextOutbound ==
  \/ \E d \in HeaderObjects, h \in {None} \cup {Some(x) : x \in HeaderObjects},
        t \in {None, Some(""), Some("t1")},
        tr \in {None, Some(""), Some("t1")} :
       IssueDirect(<<"http://x">>, d, <<"/", "users">>, None, h, t, tr)
  \/ \E b \in {<<"http://x">> \o Slashes(n) : n \in 0 .. MaxSlashes},
        p \in {Slashes(n) \o <<"users">> : n \in 0 .. MaxSlashes},
        q \in Queries :
       IssueDirect(b, NoHeaders, p, q, None, None, None)
  \/ \E req \in InboundRequests, useDefault \in BOOLEAN,
        name \in {"python", "go"}, h \in RouterHeaders :
       IssueThroughContext(req, useDefault, name, <<"/", "users">>, h)
  \/ OutboundSettles

SpecOutbound == InitRouters /\ [][NextOutbound]_vars

(* ------------------------------------------------------------------ *)
(* tRPC procedures: createContext's user, protected and admin          *)
(* ------------------------------------------------------------------ *)

\* the payload of the token login signs
AdminUser ==
  [id |-> "mock-user-id", role |-> [name |-> "admin", permissions |-> {"*"}]]

\* payloads of tokens signed with the same secret for other roles
EditorUser ==
  [id |-> "user-2", role |-> [name |-> "editor", permissions |-> {"users:*"}]]

ViewerUser ==
  [id |-> "user-3",
   role |-> [name |-> "viewer", permissions |-> {"users:read"}]]

\* jwt.verify(token, secret): the payload, or None where it throws (a
\* token that is not a valid signed and unexpired JWT)
jwtVerify(token) ==
  IF token = "admin-jwt" THEN Some(AdminUser)
  ELSE IF token = "editor-jwt" THEN Some(EditorUser)
  ELSE IF token = "viewer-jwt" THEN Some(ViewerUser)
  ELSE None

\* ctx.user of createContext for the request's Authorization header
UserOf(authorization) ==
  LET token == TruthyOf(TokenOf(authorization))
  IN IF token = {} THEN None ELSE jwtVerify(CHOOSE t \in token : TRUE)

\* protectedProcedure's middleware: the error code it throws, or "next"
protectedProcedure_NoCheck(user) == "next"

protectedProcedure(user) == IF user = None THEN "UNAUTHORIZED" ELSE "next"

\* adminProcedure's middlewares: the error code thrown, or "next"
adminProcedure(user) ==
  IF protectedProcedure(user) # "next" THEN protectedProcedure(user)
  ELSE IF \E u \in user : u.role.name # "admin" THEN "FORBIDDEN"
       ELSE "next"

\* what a procedure answered: the code of the TRPCError thrown ("OK" when the
\* handler returned), whether the handler ran, and ctx.user
Reply(proc, code, ran, user) ==
  [proc |-> proc, input |-> "", code |-> code, ran |-> ran, user |-> user]

\* Authorization headers in every form createContext reads
RouterAuthorizations ==
  {<<>>, <<"Bearer">>, <<"Bearer", "admin-jwt">>, <<"Bearer", "editor-jwt">>,
   <<"Bearer", "expired-jwt">>, <<"Basic", "admin-jwt">>, <<"admin-jwt">>}

\* Authorization headers of the requests to the routers' procedures
SessionAuthorizations ==
  {<<>>, <<"Bearer", "admin-jwt">>, <<"Bearer", "editor-jwt">>,
   <<"Bearer", "expired-jwt">>}

\* Date.now() read by a handler: the clock has not gone back, and has moved
\* on by at most a millisecond since the last reading
ClockReadings == {t \in {now, now + 1} : t <= MaxClock}

(* ------------------------------------------------------------------ *)
(* Folders router                                                     *)
(* ------------------------------------------------------------------ *)

\* largest number of folders in the store
MaxFolders == 7

\* name.toLowerCase() of the folder and team names in use
toLowerCase(name) ==
  CASE name = "Root" -> "root"
    [] name = "Documents" -> "documents"
    [] name = "Images" -> "images"
    [] name = "Projects" -> "projects"
    [] name = "Specs" -> "specs"
    [] name = "Reports" -> "reports"
    [] name = "Drafts" -> "drafts"
    [] name = "Engineering" -> "engineering"
    [] name = "Design" -> "design"
    [] name = "Marketing" -> "marketing"
    [] name = "Platform" -> "platform"
    [] name = "Ops" -> "ops"
    [] OTHER -> name

\* mockFolders.find((f) => f.id === id): the first folder of that id
FindFolder(folders, id) ==
  LET at == {i \in 1 .. Len(folders) : folders[i].id = id}
  IN IF at = {} THEN None
     ELSE Some(folders[CHOOSE i \in at : \A j \in at : i <= j])

\* mockFolders.findIndex((f) => f.id === id), 0 for -1
FindFolderIndex(folders, id) ==
  LET at == {i \in 1 .. Len(folders) : folders[i].id = id}
  IN IF at = {} THEN 0 ELSE CHOOSE i \in at : \A j \in at : i <= j

\* folder.parentId === null && folder.name === 'Root'
IsRootFolder(folder) == folder.parentId = None /\ folder.name = "Root"

\* array.splice(index, 1)
Splice(seq, index) ==
  [i \in 1 .. Len(seq) - 1 |-> IF i < index THEN seq[i] ELSE seq[i + 1]]

\* what every folders action leaves alone
FoldersFrame ==
  /\ UNCHANGED <<outbound, mockDocuments, mockVersions, mockTeams, mockMembers>>
  /\ UNCHANGED <<httpVars, regVars>>

\* a procedure of the folders router answers without changing the store
FoldersAnswer(proc, code, ran, user) ==
  /\ reply' = Reply(proc, code, ran, user)
  /\ UNCHANGED <<mockFolders, now, crumb>>

\* folders.create
FoldersCreate(authorization, name, parentId) ==
  LET user == UserOf(authorization)
      gate == protectedProcedure(user)
      parent == IF parentId = None THEN None
                ELSE FindFolder(mockFolders, CHOOSE p \in parentId : TRUE)
      existing == {i \in 1 .. Len(mockFolders) :
                     /\ mockFolders[i].parentId = parentId
                     /\ toLowerCase(mockFolders[i].name) = toLowerCase(name)}
  IN /\ crumb.pc = "idle"
     /\ IF gate # "next" THEN FoldersAnswer("folders.create", gate, FALSE, user)
        ELSE IF parentId # None /\ parent = None
        THEN FoldersAnswer("folders.create", "NOT_FOUND", TRUE, user)
        ELSE IF existing # {}
        THEN FoldersAnswer("folders.create", "BAD_REQUEST", TRUE, user)
        ELSE /\ Len(mockFolders) < MaxFolders
             /\ \E t \in ClockReadings :
                  /\ now' = t
                  /\ mockFolders' = Append(mockFolders,
                       [id       |-> "folder-" \o ToString(t),
                        name     |-> name,
                        parentId |-> parentId])
             /\ reply' = Reply("folders.create", "OK", TRUE, user)
             /\ UNCHANGED crumb
     /\ FoldersFrame

\* folders.update
FoldersUpdate(authorization, id, name) ==
  LET user == UserOf(authorization)
      gate == protectedProcedure(user)
      existingIndex == FindFolderIndex(mockFolders, id)
  IN /\ crumb.pc = "idle"
     /\ IF gate # "next" THEN FoldersAnswer("folders.update", gate, FALSE, user)
        ELSE IF existingIndex = 0
        THEN FoldersAnswer("folders.update", "NOT_FOUND", TRUE, user)
        ELSE IF IsRootFolder(mockFolders[existingIndex])
        THEN FoldersAnswer("folders.update", "BAD_REQUEST", TRUE, user)
        ELSE /\ mockFolders' =
                  [mockFolders EXCEPT ![existingIndex].name =
                     IF TruthyOf(name) # {}
                     THEN CHOOSE n \in TruthyOf(name) : TRUE ELSE @]
             /\ reply' = Reply("folders.update", "OK", TRUE, user)
             /\ UNCHANGED <<now, crumb>>
     /\ FoldersFrame

\* folders.delete
FoldersDelete(authorization, id) ==
  LET user == UserOf(authorization)
      gate == protectedProcedure(user)
      existingIndex == FindFolderIndex(mockFolders, id)
      hasChildren == \E i \in 1 .. Len(mockFolders) :
                       mockFolders[i].parentId = Some(id)
  IN /\ crumb.pc = "idle"
     /\ IF gate # "next" THEN FoldersAnswer("folders.delete", gate, FALSE, user)
        ELSE IF existingIndex = 0
        THEN FoldersAnswer("folders.delete", "NOT_FOUND", TRUE, user)
        ELSE IF IsRootFolder(mockFolders[existingIndex]) \/ hasChildren
        THEN FoldersAnswer("folders.delete", "BAD_REQUEST", TRUE, user)
        ELSE /\ mockFolders' = Splice(mockFolders, existingIndex)
             /\ reply' = Reply("folders.delete", "OK", TRUE, user)
             /\ UNCHANGED <<now, crumb>>
     /\ FoldersFrame

\* the check move makes on its target: targetParentId === id
MoveIntoItself(id, targetParentId) == targetParentId = Some(id)

\* folders.move
FoldersMove(authorization, id, targetParentId) ==
  LET user == UserOf(authorization)
      gate == protectedProcedure(user)
      existingIndex == FindFolderIndex(mockFolders, id)
      target == TruthyOf(targetParentId)
  IN /\ crumb.pc = "idle"
     /\ IF gate # "next" THEN FoldersAnswer("folders.move", gate, FALSE, user)
        ELSE IF existingIndex = 0
        THEN FoldersAnswer("folders.move", "NOT_FOUND", TRUE, user)
        ELSE IF IsRootFolder(mockFolders[existingIndex])
        THEN FoldersAnswer("folders.move", "BAD_REQUEST", TRUE, user)
        ELSE IF MoveIntoItself(id, targetParentId)
        THEN FoldersAnswer("folders.move", "BAD_REQUEST", TRUE, user)
        ELSE IF target # {} /\ \E p \in target : FindFolder(mockFolders, p) = None
        THEN FoldersAnswer("folders.move", "NOT_FOUND", TRUE, user)
        ELSE /\ mockFolders' =
                  [mockFolders EXCEPT ![existingIndex].parentId = targetParentId]
             /\ reply' = Reply("folders.move", "OK", TRUE, user)
             /\ UNCHANGED <<now, crumb>>
     /\ FoldersFrame

\* folders.getBreadcrumb up to its loop
BreadcrumbStart(authorization, id) ==
  LET user == UserOf(authorization)
      gate == protectedProcedure(user)
      folder == FindFolder(mockFolders, id)
  IN /\ crumb.pc = "idle"
     /\ IF gate # "next"
        THEN FoldersAnswer("folders.getBreadcrumb", gate, FALSE, user)
        ELSE IF folder = None
        THEN FoldersAnswer("folders.getBreadcrumb", "NOT_FOUND", TRUE, user)
        ELSE /\ crumb' = [pc |-> "walking", current |-> folder,
                          breadcrumb |-> <<>>]
             /\ reply' = Reply("folders.getBreadcrumb", "running", TRUE, user)
             /\ UNCHANGED <<mockFolders, now>>
     /\ FoldersFrame

\* one turn of `while (current)`; the walk is followed for one turn more than
\* there are folders
BreadcrumbStep ==
  /\ crumb.pc = "walking"
  /\ crumb.current # None
  /\ Len(crumb.breadcrumb) <= Len(mockFolders)
  /\ \E current \in crumb.current :
       crumb' = [crumb EXCEPT
                   !.breadcrumb = <<current.id>> \o @,
                   !.current =
                     IF TruthyOf(current.parentId) # {}
                     THEN FindFolder(mockFolders,
                            CHOOSE p \in current.parentId : TRUE)
                     ELSE None]
  /\ UNCHANGED <<mockFolders, now, reply>>
  /\ FoldersFrame

\* the loop is left and the breadcrumb returned
BreadcrumbReturns ==
  /\ crumb.pc = "walking"
  /\ crumb.current = None
  /\ crumb' = IdleCrumb
  /\ reply' = [reply EXCEPT !.code = "OK"]
  /\ UNCHANGED <<mockFolders, now>>
  /\ FoldersFrame

NextFolders ==
  \/ \E a \in SessionAuthorizations, name \in {"Drafts", "specs"},
        parentId \in {None, Some("folder-documents"), Some("folder-missing")} :
       FoldersCreate(a, name, parentId)
  \/ \E a \in SessionAuthorizations, id \in {"folder-specs", "folder-root"},
        name \in {None, Some(""), Some("Drafts")} :
       FoldersUpdate(a, id, name)
  \/ \E a \in SessionAuthorizations,
        id \in {"folder-reports", "folder-documents", "folder-root",
                "folder-missing"} :
       FoldersDelete(a, id)
  \/ \E a \in SessionAuthorizations,
        id \in {"folder-documents", "folder-specs", "folder-root",
                "folder-missing"},
        targetParentId \in {None, Some("folder-documents"),
                            Some("folder-specs"), Some("folder-images"),
                            Some("folder-missing")} :
       FoldersMove(a, id, targetParentId)
  \/ \E a \in SessionAuthorizations,
        id \in {"folder-specs", "folder-documents", "folder-missing"} :
       BreadcrumbStart(a, id)
  \/ BreadcrumbStep
  \/ BreadcrumbReturns

SpecFolders == InitRouters /\ [][NextFolders]_vars

(* ------------------------------------------------------------------ *)
(* Documents router and the hasPermission middleware                  *)
(* ------------------------------------------------------------------ *)

\* largest number of documents and of versions in the stores
MaxDocuments == 9

MaxVersions == 4

\* mockDocuments.findIndex((d) => d.id === id), 0 for -1
FindDocumentIndex(documents, id) ==
  LET at == {i \in 1 .. Len(documents) : documents[i].id = id}
  IN IF at = {} THEN 0 ELSE CHOOSE i \in at : \A j \in at : i <= j

\* (latestVersion?.version || 0): the highest version number of the document
LatestVersion(versions, documentId) ==
  LET numbers == {versions[i].version :
                    i \in {j \in 1 .. Len(versions) :
                             versions[j].documentId = documentId}}
  IN IF numbers = {} THEN 0
     ELSE CHOOSE n \in numbers : \A k \in numbers : k <= n

\* what every documents action leaves alone
DocumentsFrame ==
  /\ UNCHANGED <<outbound, mockFolders, crumb, mockTeams, mockMembers>>
  /\ UNCHANGED <<httpVars, regVars>>

\* a procedure of the documents router answers without changing the stores
DocumentsAnswer(proc, code, ran, user) ==
  /\ reply' = Reply(proc, code, ran, user)
  /\ UNCHANGED <<mockDocuments, mockVersions, now>>

\* documents.create
DocumentsCreate(authorization, content) ==
  LET user == UserOf(authorization)
      gate == protectedProcedure(user)
  IN /\ IF gate # "next"
        THEN DocumentsAnswer("documents.create", gate, FALSE, user)
        ELSE /\ Len(mockDocuments) < MaxDocuments
             /\ Len(mockVersions) < MaxVersions
             /\ \E t \in ClockReadings :
                  /\ now' = t
                  /\ mockDocuments' = Append(mockDocuments,
                       [id |-> "doc-" \o ToString(t), content |-> content])
                  /\ mockVersions' = Append(mockVersions,
                       [documentId |-> "doc-" \o ToString(t), version |-> 1,
                        content |-> content])
             /\ reply' = Reply("documents.create", "OK", TRUE, user)
     /\ DocumentsFrame

\* the test update makes before it appends a version
ContentChanged(content, existing) ==
  TruthyOf(content) # {} /\ content # Some(existing.content)

\* documents.update
DocumentsUpdate(authorization, id, content) ==
  LET user == UserOf(authorization)
      gate == protectedProcedure(user)
      existingIndex == FindDocumentIndex(mockDocuments, id)
  IN /\ IF gate # "next"
        THEN DocumentsAnswer("documents.update", gate, FALSE, user)
        ELSE IF existingIndex = 0
        THEN DocumentsAnswer("documents.update", "NOT_FOUND", TRUE, user)
        ELSE LET existing == mockDocuments[existingIndex]
             IN /\ mockDocuments' =
                     [mockDocuments EXCEPT ![existingIndex].content =
                        IF content = None THEN @
                        ELSE CHOOSE c \in content : TRUE]
                /\ IF ContentChanged(content, existing)
                   THEN /\ Len(mockVersions) < MaxVersions
                        /\ \E t \in ClockReadings : now' = t
                        /\ mockVersions' = Append(mockVersions,
                             [documentId |-> id,
                              version |-> LatestVersion(mockVersions, id) + 1,
                              content |-> CHOOSE c \in content : TRUE])
                   ELSE UNCHANGED <<mockVersions, now>>
                /\ reply' = Reply("documents.update", "OK", TRUE, user)
     /\ DocumentsFrame

\* documents.delete
DocumentsDelete(authorization, id) ==
  LET user == UserOf(authorization)
      gate == adminProcedure(user)
      existingIndex == FindDocumentIndex(mockDocuments, id)
  IN /\ IF gate # "next"
        THEN DocumentsAnswer("documents.delete", gate, FALSE, user)
        ELSE IF existingIndex = 0
        THEN DocumentsAnswer("documents.delete", "NOT_FOUND", TRUE, user)
        ELSE /\ mockDocuments' = Splice(mockDocuments, existingIndex)
             /\ mockVersions' =
                  SelectSeq(mockVersions, LAMBDA v : v.documentId # id)
             /\ reply' = Reply("documents.delete", "OK", TRUE, user)
             /\ UNCHANGED now
     /\ DocumentsFrame

\* documents.restoreVersion
DocumentsRestoreVersion(authorization, documentId, version) ==
  LET user == UserOf(authorization)
      gate == protectedProcedure(user)
      docIndex == FindDocumentIndex(mockDocuments, documentId)
      at == {i \in 1 .. Len(mockVersions) :
               /\ mockVersions[i].documentId = documentId
               /\ mockVersions[i].version = version}
  IN /\ IF gate # "next"
        THEN DocumentsAnswer("documents.restoreVersion", gate, FALSE, user)
        ELSE IF docIndex = 0 \/ at = {}
        THEN DocumentsAnswer("documents.restoreVersion", "NOT_FOUND", TRUE, user)
        ELSE LET targetVersion ==
                   mockVersions[CHOOSE i \in at : \A j \in at : i <= j]
             IN /\ Len(mockVersions) < MaxVersions
                /\ mockDocuments' = [mockDocuments EXCEPT
                     ![docIndex].content = targetVersion.content]
                /\ \E t \in ClockReadings : now' = t
                /\ mockVersions' = Append(mockVersions,
                     [documentId |-> documentId,
                      version |-> LatestVersion(mockVersions, documentId) + 1,
                      content |-> targetVersion.content])
                /\ reply' = Reply("documents.restoreVersion", "OK", TRUE, user)
     /\ DocumentsFrame

\* the error code the middleware hasPermission(permission) throws for
\* ctx.user, or "next"
hasPermission(permission, user) ==
  IF user = None THEN "UNAUTHORIZED"
  ELSE LET permissions == UNION {u.role.permissions : u \in user}
       IN IF "*" \in permissions THEN "next"
          ELSE IF permission \notin permissions THEN "FORBIDDEN"
          ELSE "next"

\* a procedure guarded by hasPermission(permission) is called; its handler
\* touches no store
PermissionCall(authorization, permission) ==
  LET user == UserOf(authorization)
      gate == hasPermission(permission, user)
  IN /\ reply' = [Reply("hasPermission", IF gate = "next" THEN "OK" ELSE gate,
                        gate = "next", user)
                    EXCEPT !.input = permission]
     /\ UNCHANGED <<mockDocuments, mockVersions, now>>
     /\ DocumentsFrame

NextDocuments ==
  \/ \E a \in SessionAuthorizations : DocumentsCreate(a, "draft")
  \/ \E a \in SessionAuthorizations, id \in {"doc-1", "doc-missing"},
        content \in {None, Some(""), Some("overview"), Some("draft")} :
       DocumentsUpdate(a, id, content)
  \/ \E a \in SessionAuthorizations, id \in {"doc-1", "doc-missing"} :
       DocumentsDelete(a, id)
  \/ \E a \in SessionAuthorizations, version \in {1, 9} :
       DocumentsRestoreVersion(a, "doc-1", version)
  \/ \E a \in RouterAuthorizations \cup {<<"Bearer", "viewer-jwt">>},
        permission \in {"users:read", "users:write", "teams:read"} :
       PermissionCall(a, permission)

SpecDocuments == InitRouters /\ [][NextDocuments]_vars

(* ------------------------------------------------------------------ *)
(* Teams router                                                       *)
(* ------------------------------------------------------------------ *)

\* largest number of teams in the store
MaxTeams == 5

\* mockTeams.findIndex((t) => t.id === id), 0 for -1
FindTeamIndex(teams, id) ==
  LET at == {i \in 1 .. Len(teams) : teams[i].id = id}
  IN IF at = {} THEN 0 ELSE CHOOSE i \in at : \A j \in at : i <= j

\* mockMembers[teamId] || []
MembersOf(members, teamId) ==
  IF teamId \in DOMAIN members THEN members[teamId] ELSE <<>>

\* members.findIndex((m) => m.userId === userId), 0 for -1
FindMemberIndex(list, userId) ==
  LET at == {i \in 1 .. Len(list) : list[i].userId = userId}
  IN IF at = {} THEN 0 ELSE CHOOSE i \in at : \A j \in at : i <= j

\* mockMembers[teamId] = list
SetMembers(members, teamId, list) ==
  [k \in DOMAIN members \cup {teamId} |->
     IF k = teamId THEN list ELSE members[k]]

\* delete mockMembers[teamId]
DeleteMembers(members, teamId) ==
  [k \in DOMAIN members \ {teamId} |-> members[k]]

\* what every teams action leaves alone
TeamsFrame ==
  /\ UNCHANGED <<outbound, mockFolders, crumb, mockDocuments, mockVersions>>
  /\ UNCHANGED <<httpVars, regVars>>

\* a procedure of the teams router answers without changing the stores
TeamsAnswer(proc, code, ran, user) ==
  /\ reply' = Reply(proc, code, ran, user)
  /\ UNCHANGED <<mockTeams, mockMembers, now>>

\* teams.create; `creator` records ctx.user.id of the call for the claims and
\* is read by no procedure
TeamsCreate(authorization, name) ==
  LET user == UserOf(authorization)
      gate == adminProcedure(user)
      existing == {i \in 1 .. Len(mockTeams) :
                     toLowerCase(mockTeams[i].name) = toLowerCase(name)}
  IN /\ IF gate # "next" THEN TeamsAnswer("teams.create", gate, FALSE, user)
        ELSE IF existing # {}
        THEN TeamsAnswer("teams.create", "BAD_REQUEST", TRUE, user)
        ELSE /\ Len(mockTeams) < MaxTeams
             /\ \E t \in ClockReadings, u \in user :
                  LET teamId == "team-" \o ToString(t)
                  IN /\ now' = t
                     /\ mockMembers' = SetMembers(mockMembers, teamId,
                          <<[userId |-> u.id, role |-> "owner"]>>)
                     /\ mockTeams' = Append(mockTeams,
                          [id |-> teamId, name |-> name, memberCount |-> 1,
                           creator |-> Some(u.id)])
             /\ reply' = Reply("teams.create", "OK", TRUE, user)
     /\ TeamsFrame

\* teams.delete
TeamsDelete(authorization, id) ==
  LET user == UserOf(authorization)
      gate == adminProcedure(user)
      existingIndex == FindTeamIndex(mockTeams, id)
  IN /\ IF gate # "next" THEN TeamsAnswer("teams.delete", gate, FALSE, user)
        ELSE IF existingIndex = 0
        THEN TeamsAnswer("teams.delete", "NOT_FOUND", TRUE, user)
        ELSE /\ mockTeams' = Splice(mockTeams, existingIndex)
             /\ mockMembers' = DeleteMembers(mockMembers, id)
             /\ reply' = Reply("teams.delete", "OK", TRUE, user)
             /\ UNCHANGED now
     /\ TeamsFrame

\* teams.addMember
TeamsAddMember(authorization, teamId, userId, role) ==
  LET user == UserOf(authorization)
      gate == adminProcedure(user)
      teamIndex == FindTeamIndex(mockTeams, teamId)
      members == MembersOf(mockMembers, teamId)
  IN /\ IF gate # "next" THEN TeamsAnswer("teams.addMember", gate, FALSE, user)
        ELSE IF teamIndex = 0
        THEN TeamsAnswer("teams.addMember", "NOT_FOUND", TRUE, user)
        ELSE IF FindMemberIndex(members, userId) # 0
        THEN TeamsAnswer("teams.addMember", "BAD_REQUEST", TRUE, user)
        ELSE /\ \E t \in ClockReadings : now' = t
             /\ mockMembers' = SetMembers(mockMembers, teamId,
                  Append(members, [userId |-> userId, role |-> role]))
             /\ mockTeams' = [mockTeams EXCEPT ![teamIndex].memberCount = @ + 1]
             /\ reply' = Reply("teams.addMember", "OK", TRUE, user)
     /\ TeamsFrame

\* teams.removeMember
TeamsRemoveMember(authorization, teamId, userId) ==
  LET user == UserOf(authorization)
      gate == adminProcedure(user)
      teamIndex == FindTeamIndex(mockTeams, teamId)
      members == MembersOf(mockMembers, teamId)
      memberIndex == FindMemberIndex(members, userId)
  IN /\ IF gate # "next"
        THEN TeamsAnswer("teams.removeMember", gate, FALSE, user)
        ELSE IF teamIndex = 0 \/ memberIndex = 0
        THEN TeamsAnswer("teams.removeMember", "NOT_FOUND", TRUE, user)
        ELSE IF members[memberIndex].role = "owner"
        THEN TeamsAnswer("teams.removeMember", "BAD_REQUEST", TRUE, user)
        ELSE /\ mockMembers' = SetMembers(mockMembers, teamId,
                  Splice(members, memberIndex))
             /\ mockTeams' = [mockTeams EXCEPT ![teamIndex].memberCount = @ - 1]
             /\ reply' = Reply("teams.removeMember", "OK", TRUE, user)
             /\ UNCHANGED now
     /\ TeamsFrame

\* teams.updateMemberRole
TeamsUpdateMemberRole(authorization, teamId, userId, role) ==
  LET user == UserOf(authorization)
      gate == adminProcedure(user)
      members == MembersOf(mockMembers, teamId)
      memberIndex == FindMemberIndex(members, userId)
  IN /\ IF gate # "next"
        THEN TeamsAnswer("teams.updateMemberRole", gate, FALSE, user)
        ELSE IF memberIndex = 0
        THEN TeamsAnswer("teams.updateMemberRole", "NOT_FOUND", TRUE, user)
        ELSE IF members[memberIndex].role = "owner"
        THEN TeamsAnswer("teams.updateMemberRole", "BAD_REQUEST", TRUE, user)
        ELSE /\ mockMembers' = SetMembers(mockMembers, teamId,
                  [members EXCEPT ![memberIndex].role = role])
             /\ reply' = Reply("teams.updateMemberRole", "OK", TRUE, user)
             /\ UNCHANGED <<mockTeams, now>>
     /\ TeamsFrame

\* team ids and user ids of the requests to the teams router
TeamIds == {"team-0", "team-design", "team-missing"}

TeamUserIds == {"mock-user-id", "user-20"}

NextTeams ==
  \/ \E a \in SessionAuthorizations, name \in {"Platform", "Ops", "engineering"} :
       TeamsCreate(a, name)
  \/ \E a \in SessionAuthorizations, id \in TeamIds : TeamsDelete(a, id)
  \/ \E a \in SessionAuthorizations, teamId \in TeamIds, userId \in TeamUserIds,
        role \in {"admin", "member"} :
       TeamsAddMember(a, teamId, userId, role)
  \/ \E a \in SessionAuthorizations, teamId \in TeamIds, userId \in TeamUserIds :
       TeamsRemoveMember(a, teamId, userId)
  \/ \E a \in SessionAuthorizations, teamId \in TeamIds, userId \in TeamUserIds,
        role \in {"admin", "member"} :
       TeamsUpdateMemberRole(a, teamId, userId, role)

SpecTeams == InitRouters /\ [][NextTeams]_vars

(* ------------------------------------------------------------------ *)
(* Specification                                                      *)
(* ------------------------------------------------------------------ *)

Next ==
  \/ \E m \in {None} \cup {Some(x) : x \in Methods},
        r \in {None} \cup {Some(x) : x \in RetryValues},
        t \in {None} \cup {Some(x) : x \in CallTimeouts},
        s \in BOOLEAN : Request(m, r, t, s)
  \/ \E status \in Statuses : FetchResolves(status)
  \/ FetchThrows
  \/ \E raw \in Bodies : BodyRead(raw)
  \/ \E name \in {"SyntaxError", "TypeError"} : BodyThrows(name)
  \/ DeadlineExpires
  \/ SleepDone
  \/ CallSettled
  \/ \E name \in Kinds : CheckHealthStart(name)
  \/ \E elapsed \in ElapsedValues : HealthRequestSettles(elapsed)
  \/ HealthReturned

Spec == Init /\ [][Next]_vars

(* ------------------------------------------------------------------ *)
(* Vocabulary of the claims                                           *)
(* ------------------------------------------------------------------ *)

\* the retry count in force: the per-call override, else the client default
EffectiveRetries ==
  IF options.retries = None THEN client.retries
  ELSE CHOOSE v \in options.retries : TRUE

\* the method in force: GET when the call names none
EffectiveMethod ==
  IF options.method = None THEN "GET" ELSE CHOOSE m \in options.method : TRUE

RetryableKinds == {"TIMEOUT", "INTERNAL_SERVER_ERROR"}

NonRetryableKinds == {"BAD_REQUEST", "UNAUTHORIZED", "FORBIDDEN", "NOT_FOUND"}

Is2xx(status) == status \in 200 .. 299

\* the status table as the specification states it
StatusTable(status) ==
  IF status = 400 THEN "BAD_REQUEST"
  ELSE IF status = 401 THEN "UNAUTHORIZED"
  ELSE IF status = 403 THEN "FORBIDDEN"
  ELSE IF status = 404 THEN "NOT_FOUND"
  ELSE IF status = 408 \/ status = 504 THEN "TIMEOUT"
  ELSE "INTERNAL_SERVER_ERROR"

\* the waits the specification lists, by the attempt they precede
ListedWait(n) ==
  CASE n = 2 -> 100
    [] n = 3 -> 200
    [] n = 4 -> 400
    [] n = 5 -> 800
    [] n = 6 -> 1600
    [] OTHER -> 2000

(* ------------------------------------------------------------------ *)
(* C1                                                                 *)
(* ------------------------------------------------------------------ *)

\* C1: an idempotent request (GET, PUT, DELETE) with effective retry count
\* r >= 1 that is rejected with a TIMEOUT or INTERNAL_SERVER_ERROR error (so
\* every attempt failed with a retryable kind) has made exactly r + 1
\* attempts, never more on the way, and the error it rejects with is the one
\* the last attempt raised.
C1_RetriesExhausted ==
  (EffectiveMethod \in {"GET", "PUT", "DELETE"} /\ EffectiveRetries >= 1
     /\ pc # "idle")
  => /\ attemptsMade <= EffectiveRetries + 1
     /\ (pc = "rejected" /\ lastError.code \in RetryableKinds)
        => /\ attemptsMade = EffectiveRetries + 1
           /\ lastError.name = "TRPCError"
           /\ lastError.attempt = attemptsMade

C1_Witness ==
  /\ pc = "rejected"
  /\ options.method = Some("PUT")
  /\ options.retries = None
  /\ client.retries = 3
  /\ lastError.code = "TIMEOUT"
  /\ lastError.attempt = 4
  /\ attemptsMade = 4

(* ------------------------------------------------------------------ *)
(* C2                                                                 *)
(* ------------------------------------------------------------------ *)

\* C2: a POST or PATCH request with a retry count > 0 makes exactly one
\* attempt: it never enters a backoff wait, whatever kind the attempt fails
\* with.
C2_NonIdempotentSingleAttempt ==
  (pc # "idle" /\ EffectiveMethod \in {"POST", "PATCH"} /\ EffectiveRetries > 0)
  => /\ attemptsMade = 1
     /\ pc # "sleep"
     /\ waits = <<>>

C2_Witness ==
  /\ pc = "rejected"
  /\ options.method = Some("PATCH")
  /\ options.retries = Some(3)
  /\ lastError.code = "INTERNAL_SERVER_ERROR"
  /\ attemptsMade = 1

(* ------------------------------------------------------------------ *)
(* C3                                                                 *)
(* ------------------------------------------------------------------ *)

C4_No4xxRetried ==
  (lastError.cause = "status" /\ lastError.status \in 400 .. 499)
  => /\ pc = "rejected"
     /\ lastError.attempt = attemptsMade

\* C4 as amended: an attempt that failed with the status-derived error of a
\* 400, 401, 403 or 404 response ends the retry loop, for every method and
\* retry count.
C4_MappedClientErrorsNotRetried ==
  (lastError.cause = "status" /\ lastError.status \in {400, 401, 403, 404})
  => /\ pc = "rejected"
     /\ lastError.attempt = attemptsMade

C4_Witness ==
  /\ pc = "rejected"
  /\ lastError.cause = "status"
  /\ lastError.status = 404
  /\ options.method = Some("DELETE")
  /\ attempt < maxAttempts

(* ------------------------------------------------------------------ *)
(* C5                                                                 *)
(* ------------------------------------------------------------------ *)

\* C5: the i-th wait of a request, the one before attempt N = i + 1, is
\* min(100 * 2^(N-2), 2000) ms, i.e. 100, 200, 400, 800, 1600, then 2000; a
\* wait is always followed by a further attempt, so there are exactly
\* (attempts - 1) waits once an attempt runs or the call has settled: none
\* before attempt 1 and none after the last.
C5_BackoffSchedule ==
  /\ \A i \in 1 .. Len(waits) :
       /\ waits[i] = (IF 100 * (2 ^ (i - 1)) <= 2000
                      THEN 100 * (2 ^ (i - 1)) ELSE 2000)
       /\ waits[i] = ListedWait(i + 1)
  /\ pc = "sleep" => (Len(waits) = attemptsMade /\ attempt < maxAttempts)
  /\ (pc \in {"fetch", "body", "resolved", "rejected"} /\ attemptsMade >= 1)
     => Len(waits) = attemptsMade - 1
  /\ attemptsMade = 0 => waits = <<>>

C5_Witness ==
  /\ pc = "fetch"
  /\ Len(waits) = 6
  /\ waits[5] = 1600
  /\ waits[6] = 2000
  /\ attemptsMade = 7

(* ------------------------------------------------------------------ *)
(* C6                                                                 *)
(* ------------------------------------------------------------------ *)

\* C6: a call made with retries: 0 makes exactly one attempt and no backoff
\* wait, whatever the method, the failure kind and the client's default.
C6_ZeroRetriesOverride ==
  (pc # "idle" /\ options.retries = Some(0))
  => /\ attemptsMade = 1
     /\ maxAttempts = 1
     /\ pc # "sleep"
     /\ waits = <<>>

C6_Witness ==
  /\ pc = "rejected"
  /\ options.retries = Some(0)
  /\ client.retries = 3
  /\ options.method = Some("GET")
  /\ lastError.code = "TIMEOUT"
  /\ attemptsMade = 1

(* ------------------------------------------------------------------ *)
(* C7                                                                 *)
(* ------------------------------------------------------------------ *)

\* C7: every request makes at least one attempt, and a request that rejects
\* rejects with the typed error of an attempt it made, never with undefined.
C7_InitialAttemptAlwaysMade ==
  /\ pc # "idle" => attemptsMade >= 1
  /\ pc = "rejected"
     => /\ lastError.name = "TRPCError"
        /\ lastError.attempt \in 1 .. attemptsMade

(* ------------------------------------------------------------------ *)
(* C8                                                                 *)
(* ------------------------------------------------------------------ *)

\* C8: every running attempt has a deadline timer set to the per-call
\* timeoutMs, else the client default; when it fires, while waiting for the
\* response or while reading the body, the attempt fails with a TIMEOUT
\* error (never INTERNAL_SERVER_ERROR) and its timer is gone.
C8_DeadlineIsTimeout ==
  [][ /\ pc' \in {"fetch", "body"}
         => timer' = (IF options'.timeoutMs # None
                      THEN options'.timeoutMs ELSE {client'.timeoutMs})
      /\ DeadlineExpires
         => /\ lastError'.name = "TRPCError"
            /\ lastError'.code = "TIMEOUT"
            /\ lastError'.attempt = attemptsMade
            /\ timer' = None
            /\ pc' \in {"sleep", "rejected"} ]_vars

C8_Witness ==
  /\ pc = "rejected"
  /\ options.method = Some("POST")
  /\ options.timeoutMs = Some(3000)
  /\ lastError.name = "TRPCError"
  /\ lastError.code = "TIMEOUT"
  /\ lastError.cause = ""
  /\ lastError.attempt = 1

(* ------------------------------------------------------------------ *)
(* C9                                                                 *)
(* ------------------------------------------------------------------ *)

\* C9: an attempt whose response was read and has a non-2xx status fails
\* with the kind the table gives for that status (400 BAD_REQUEST, 401
\* UNAUTHORIZED, 403 FORBIDDEN, 404 NOT_FOUND, 408 and 504 TIMEOUT, any other
\* INTERNAL_SERVER_ERROR); an exception of fetch or of the body read that is
\* not an abort fails the attempt with INTERNAL_SERVER_ERROR.
C9_StatusTable ==
  [][ /\ ((\E raw \in Bodies : BodyRead(raw)) /\ ~Is2xx(response))
         => /\ pc' \in {"sleep", "rejected"}
            /\ lastError'.name = "TRPCError"
            /\ lastError'.status = response
            /\ lastError'.code = StatusTable(response)
            /\ lastError'.attempt = attemptsMade
      /\ (FetchThrows \/ \E n \in {"SyntaxError", "TypeError"} : BodyThrows(n))
         => /\ pc' \in {"sleep", "rejected"}
            /\ lastError'.name = "TRPCError"
            /\ lastError'.code = "INTERNAL_SERVER_ERROR"
      /\ lastError'.cause = "status"
         => lastError'.code = StatusTable(lastError'.status) ]_vars

C9_Witness ==
  /\ pc = "sleep"
  /\ lastError.cause = "status"
  /\ lastError.status = 504
  /\ lastError.code = "TIMEOUT"

(* ------------------------------------------------------------------ *)
(* C10                                                                *)
(* ------------------------------------------------------------------ *)

\* C10: with a schema supplied, a 2xx body that does not satisfy it fails the
\* attempt with INTERNAL_SERVER_ERROR and a call only ever resolves with a
\* body the schema accepted; a non-2xx response raises the status-derived
\* error, never the validation error, and never resolves.
C10_SchemaValidation ==
  [][ /\ \A raw \in Bodies :
           (BodyRead(raw) /\ schema /\ Is2xx(response) /\ raw # "conforming")
           => /\ pc' \in {"sleep", "rejected"}
              /\ lastError'.name = "TRPCError"
              /\ lastError'.code = "INTERNAL_SERVER_ERROR"
              /\ lastError'.cause = "validation"
              /\ result' = NoResult
      /\ (pc' = "resolved" /\ pc # "resolved")
         => /\ pc = "body" /\ Is2xx(response)
            /\ schema => (result'.validated /\ result'.data = "conforming")
      /\ ((\E raw \in Bodies : BodyRead(raw)) /\ ~Is2xx(response))
         => /\ pc' # "resolved"
            /\ lastError'.cause = "status"
            /\ lastError'.status = response ]_vars

C10_Witness ==
  /\ pc = "rejected"
  /\ schema
  /\ options.method = Some("POST")
  /\ lastError.code = "INTERNAL_SERVER_ERROR"
  /\ lastError.cause = "validation"
  /\ lastError.attempt = 1

(* ------------------------------------------------------------------ *)
(* Vocabulary of the registry claims                                  *)
(* ------------------------------------------------------------------ *)

\* kind has a usable value in the environment the registry was loaded from
Configured(kind) ==
  /\ env[kind] # None
  /\ env[kind] # {[text |-> "", slashes |-> 0]}

ConfiguredKinds == {k \in Kinds : Configured(k)}

\* the fixed order of preference of the specification
PreferenceOrder == <<"nestjs", "python", "bun", "java", "node", "go">>

\* HALOLIGHT_API_<KIND>_URL
EnvVarName(kind) ==
  CASE kind = "python" -> "HALOLIGHT_API_PYTHON_URL"
    [] kind = "bun"    -> "HALOLIGHT_API_BUN_URL"
    [] kind = "java"   -> "HALOLIGHT_API_JAVA_URL"
    [] kind = "nestjs" -> "HALOLIGHT_API_NESTJS_URL"
    [] kind = "node"   -> "HALOLIGHT_API_NODE_URL"
    [] kind = "go"     -> "HALOLIGHT_API_GO_URL"

\* the instances the cache holds
CachedClients == UNION {clientCache[k] : k \in Kinds}

\* a step of reload
IsReload == \E kind \in Kinds, value \in EnvValues : reload(kind, value)

(* ------------------------------------------------------------------ *)
(* C11                                                                *)
(* ------------------------------------------------------------------ *)

\* C11: a cache entry changes only when reload clears it or when it is first
\* set, so between two reloads getClient(name) without overrides returns the
\* one cached instance of that name; getClient(name, overrides) returns an
\* instance constructed by that call, which is none of the cached ones, and
\* leaves the cache as it was.
C11_CachedIdentity ==
  [][ /\ \A name \in Kinds :
           (clientCache[name] # None /\ clientCache'[name] # clientCache[name])
           => (IsReload /\ clientCache'[name] = None)
      /\ \A name \in Kinds :
           (returned'.kind = "client" /\ getClient(name, None))
           => /\ returned'.client = clientCache'[name]
              /\ clientCache[name] # None
                 => (returned'.client = clientCache[name] /\ created' = created)
      /\ \A name \in Kinds, o \in Overrides \ {None} :
           (returned'.kind = "client" /\ getClient(name, o))
           => /\ clientCache' = clientCache
              /\ returned'.client \cap CachedClients = {}
              /\ \A c \in returned'.client :
                   /\ c.id = created + 1
                   /\ \A old \in CachedClients : old.id < c.id ]_vars

C11_Witness ==
  /\ returned.kind = "client"
  /\ clientCache["python"] # None
  /\ returned.client # clientCache["python"]
  /\ \E c \in returned.client, cached \in clientCache["python"] :
       /\ c.baseUrl = cached.baseUrl
       /\ cached.id = 1
       /\ c.id = 2
  /\ ConfiguredKinds = {"python"}

(* ------------------------------------------------------------------ *)
(* C13                                                                *)
(* ------------------------------------------------------------------ *)

\* C13: once reload has run with the environment value of a service removed,
\* every getClient for that name, with or without overrides, throws the
\* configuration error; it returns no client, cached earlier or new.
C13_RemovedServiceFails ==
  [][ \A name \in Kinds, o \in Overrides :
        (~Configured(name) /\ getClient(name, o))
        => /\ returned'.kind = "error"
           /\ returned'.client = None
           /\ returned'.error[2] = name
           /\ clientCache'[name] = None ]_vars

C13_Witness ==
  /\ returned.kind = "error"
  /\ Len(returned.error) >= 2
  /\ returned.error[2] = "python"
  /\ created = 1
  /\ ConfiguredKinds = {}
  /\ clientCache = [k \in Kinds |-> None]

(* ------------------------------------------------------------------ *)
(* C15                                                                *)
(* ------------------------------------------------------------------ *)

\* C15: the default service name is null exactly when no service is
\* configured; otherwise it is the configured service that comes first in the
\* order nestjs, python, bun, java, node, go, so it is a function of the
\* configured set alone.
C15_DefaultByPriority ==
  /\ defaultService = None <=> ConfiguredKinds = {}
  /\ ServiceKeys(services) = ConfiguredKinds
  /\ \A d \in defaultService :
       /\ d \in ConfiguredKinds
       /\ \E i \in 1 .. Len(PreferenceOrder) :
            /\ PreferenceOrder[i] = d
            /\ \A j \in 1 .. (i - 1) : PreferenceOrder[j] \notin ConfiguredKinds
  /\ Cardinality(defaultService) <= 1

C15_Witness ==
  /\ ConfiguredKinds = {"go", "nestjs", "python"}
  /\ defaultService = Some("nestjs")
  /\ created >= 1
  /\ returned = NoReturn

(* ------------------------------------------------------------------ *)
(* C16                                                                *)
(* ------------------------------------------------------------------ *)

\* C16: getClient for a name that is not configured throws at once an error
\* whose message names HALOLIGHT_API_<KIND>_URL, constructing and caching no
\* client and starting no request; getDefaultClient throws in the same way
\* when no service is configured.
C16_ConfigurationError ==
  [][ /\ \A name \in Kinds, o \in Overrides :
           (~Configured(name) /\ getClient(name, o))
           => /\ returned'.kind = "error"
              /\ \E i \in 1 .. Len(returned'.error) :
                   returned'.error[i] = EnvVarName(name)
              /\ created' = created
              /\ clientCache' = clientCache
              /\ pc' = pc /\ attemptsMade' = attemptsMade
      /\ \A o \in Overrides :
           (ConfiguredKinds = {} /\ getDefaultClient(o))
           => /\ returned'.kind = "error"
              /\ returned'.error # <<>>
              /\ created' = created
              /\ clientCache' = clientCache
              /\ pc' = pc /\ attemptsMade' = attemptsMade ]_vars

C16_Witness ==
  /\ returned.kind = "error"
  /\ Len(returned.error) >= 4
  /\ returned.error[2] = "go"
  /\ returned.error[4] = "HALOLIGHT_API_GO_URL"
  /\ created = 0
  /\ ConfiguredKinds = {"nestjs"}

(* ------------------------------------------------------------------ *)
(* C12                                                                *)
(* ------------------------------------------------------------------ *)

\* C12: in every reachable state of the registry, whatever getClient,
\* getDefaultClient, checkHealth, checkAllHealth and reload calls led to it,
\* every service name that has a cached client is a key of the config map.
C12_CacheWithinConfig ==
  \A name \in Kinds : clientCache[name] # None => name \in ServiceKeys(services)

\* a client is cached again after a reload removed the service a pending
\* health check is for
C12_Witness ==
  /\ single.pc = "pending"
  /\ single.name \notin ServiceKeys(services)
  /\ CachedClients # {}

(* ------------------------------------------------------------------ *)
(* C14                                                                *)
(* ------------------------------------------------------------------ *)

\* the base URL the config map holds for a configured name
ConfigBaseUrl(name) ==
  LET i == CHOOSE j \in 1 .. Len(services) : services[j].name = name
  IN services[i].baseUrl

\* the first key of the config map in the order of preference
FirstPreferred ==
  {PreferenceOrder[i] : i \in
     {j \in 1 .. Len(PreferenceOrder) :
        /\ PreferenceOrder[j] \in ServiceKeys(services)
        /\ \A h \in 1 .. (j - 1) : PreferenceOrder[h] \notin ServiceKeys(services)}}

\* C14: reload is one step: in every state, the states in which a request or
\* health check is suspended included, each cached client was built from the
\* base URL the config map now holds for its name, and the default service
\* name is the one derived from the config map now held.
C14_ReloadAtomic ==
  /\ \A name \in Kinds : \A c \in clientCache[name] :
       /\ name \in ServiceKeys(services)
       /\ c.baseUrl = ConfigBaseUrl(name)
  /\ defaultService = FirstPreferred

\* while checkAllHealth is suspended, reload has changed the config map and
\* the base URL of python, and a python client was cached after it
C14_Witness ==
  /\ allHealth.pc = "waiting"
  /\ allHealth.keys # ServiceKeys(services)
  /\ allHealth.results["python"] = None
  /\ "python" \in allHealth.started
  /\ \E c \in clientCache["python"] :
       /\ c.id >= 2
       /\ c.baseUrl = [text |-> "http://b", slashes |-> 0]
  /\ defaultService = Some("python")

(* ------------------------------------------------------------------ *)
(* C18                                                                *)
(* ------------------------------------------------------------------ *)

\* the keys of the object checkAllHealth returns
ResultKeys(h) == {k \in Kinds : h.results[k] # None}

\* a step in which checkAllHealth is called
IsAllHealthCall == allHealth.pc = "idle" /\ allHealth'.pc = "waiting"

\* a step in which the promise of checkAllHealth resolves
IsAllHealthResolve == allHealth.pc = "waiting" /\ allHealth'.pc = "resolved"

\* C18 as stated: when checkAllHealth resolves, the keys of its result are the
\* service names configured at that moment.
C18_KeysAtResolution ==
  [][ IsAllHealthResolve => ResultKeys(allHealth') = ServiceKeys(services') ]_vars

\* C18, amended: when checkAllHealth resolves, the keys of its result are the
\* service names that were configured when it was called, one entry for each
\* and none for another name, whatever the outcome of each check.
C18_KeysAtCall ==
  [][ /\ IsAllHealthCall => allHealth'.keys = ServiceKeys(services)
      /\ allHealth.pc = "waiting" => allHealth'.keys = allHealth.keys
      /\ IsAllHealthResolve => ResultKeys(allHealth') = allHealth.keys ]_vars

\* checkAllHealth has resolved with one entry for each of the two services
\* configured at the call, one of them unhealthy, after reload removed one
C18_Witness ==
  /\ allHealth.pc = "resolved"
  /\ ResultKeys(allHealth) = {"nestjs", "python"}
  /\ allHealth.keys = {"nestjs", "python"}
  /\ ServiceKeys(services) = {"nestjs"}
  /\ allHealth.results["python"] = Some(HealthResult(FALSE, 3000))
  /\ allHealth.results["nestjs"] = Some(HealthResult(TRUE, 0))

(* ------------------------------------------------------------------ *)
(* C19                                                                *)
(* ------------------------------------------------------------------ *)

\* C19: checkAllHealth has started the check of every configured service
\* before it waits; it resolves only when every one of them has settled; and
\* the settling of one check, with whatever outcome, leaves the result of
\* every other check as it was, neither setting nor changing it.
C19_ConcurrentChecks ==
  [][ /\ IsAllHealthCall => allHealth'.started = ServiceKeys(services)
      /\ allHealth'.pc = "waiting" => allHealth'.started = allHealth'.keys
      /\ allHealth'.pc = "resolved" =>
           \A name \in allHealth'.keys : allHealth'.results[name] # None
      /\ (allHealth.pc = "waiting" /\ allHealth'.pc = "waiting") =>
           /\ Cardinality({k \in Kinds :
                             allHealth'.results[k] # allHealth.results[k]}) <= 1
           /\ \A k \in Kinds :
                allHealth.results[k] # None
                => allHealth'.results[k] = allHealth.results[k]
      /\ IsAllHealthResolve => allHealth'.results = allHealth.results ]_vars

\* three services, the check of go took 3000 ms and failed, the other two
\* are healthy, and checkAllHealth has resolved
C19_Witness ==
  /\ allHealth.pc = "resolved"
  /\ allHealth.keys = {"nestjs", "python", "go"}
  /\ allHealth.results["go"] = Some(HealthResult(FALSE, 3000))
  /\ allHealth.results["nestjs"] = Some(HealthResult(TRUE, 0))
  /\ allHealth.results["python"] = Some(HealthResult(TRUE, 0))

(* ------------------------------------------------------------------ *)
(* C20                                                                *)
(* ------------------------------------------------------------------ *)

\* C20: within one request call there is at most one attempt and one live
\* deadline timer at a time, a timer being live exactly while an attempt is
\* in flight; attempt N+1 starts only from the backoff wait that followed the
\* failure of attempt N, with the timer of attempt N cleared; and no attempt
\* starts after one has succeeded.
C20_SequentialAttempts ==
  [][ /\ Cardinality(timer') <= 1
      /\ timer' # None <=> pc' \in {"fetch", "body"}
      /\ attemptsMade' > attemptsMade =>
           /\ attemptsMade' = attemptsMade + 1
           /\ pc' = "fetch"
           /\ timer = None
           /\ IF attemptsMade = 0
              THEN pc = "idle"
              ELSE /\ pc = "sleep"
                   /\ lastError.attempt = attemptsMade
                   /\ Len(waits) = attemptsMade
      /\ pc = "resolved" =>
           /\ pc' \in {"resolved", "idle"}
           /\ attemptsMade' \in {attemptsMade, 0}
           /\ timer' = None ]_vars

\* the third attempt of a call is in flight, after two failures and two waits
C20_Witness ==
  /\ pc = "fetch"
  /\ attemptsMade = 3
  /\ Cardinality(timer) = 1
  /\ Len(waits) = 2
  /\ lastError.attempt = 2

(* ------------------------------------------------------------------ *)
(* C17                                                                *)
(* ------------------------------------------------------------------ *)

\* C17: checkHealth never rejects; for a name that is not configured and for
\* every outcome of the GET it resolves with {healthy, latencyMs}, healthy
\* being true exactly when the GET succeeded; the GET makes one attempt, never
\* a second, and its deadline is 3000 ms.
C17_HealthNeverRejects ==
  [][ /\ single'.pc \in {"idle", "pending", "resolved"}
      /\ single'.pc = "pending" =>
           /\ single'.name \in ConfiguredKinds
           /\ attemptsMade' = 1
           /\ pc' # "sleep"
           /\ timer' \subseteq {3000}
           /\ pc' = "fetch" => timer' = {3000}
           /\ options'.method = Some("GET")
      /\ (single.pc = "pending" /\ single'.pc = "resolved") =>
           /\ pc \in {"resolved", "rejected"}
           /\ attemptsMade = 1
           /\ \E r \in single'.result :
                /\ r.healthy <=> pc = "resolved"
                /\ r.latencyMs >= 0
      /\ (single.pc = "idle" /\ single'.pc = "resolved") =>
           /\ single'.name \notin ConfiguredKinds
           /\ single'.result = Some([healthy |-> FALSE, latencyMs |-> -1])
           /\ attemptsMade' = 0
           /\ pc' = "idle" ]_vars

\* the GET of checkHealth("python") timed out after 3000 ms, made no second
\* attempt, and checkHealth resolved with healthy: false
C17_Witness ==
  /\ single.pc = "resolved"
  /\ single.name = "python"
  /\ single.result = Some([healthy |-> FALSE, latencyMs |-> 3000])
  /\ pc = "rejected"
  /\ lastError.code = "TIMEOUT"
  /\ attemptsMade = 1
  /\ waits = <<>>

(* ------------------------------------------------------------------ *)
(* Claims about the headers and the URL of a call                     *)
(* ------------------------------------------------------------------ *)

\* the call in flight was made on a client of ctx.services
SentThroughContext == outbound.op = "context"

\* C21: a call made through ctx.services.get or ctx.services.getDefault
\* carries X-Trace-Id and X-Request-Id, both equal to the request's traceId,
\* and carries Authorization: Bearer <token> exactly when the inbound request
\* had a bearer token.
C21_ContextCallHeaders ==
  SentThroughContext =>
    /\ outbound.sent["X-Trace-Id"] = Some(<<outbound.inbound.traceId>>)
    /\ outbound.sent["X-Request-Id"] = Some(<<outbound.inbound.traceId>>)
    /\ \A t \in TruthyOf(outbound.inbound.token) :
         outbound.sent["Authorization"] = Some(Bearer(t))
    /\ TruthyOf(outbound.inbound.token) = {} =>
         outbound.sent["Authorization"] = None

\* C22: every attempt carries Content-Type: application/json and
\* Accept: application/json whatever the default and per-call headers are; a
\* per-call token sets Authorization: Bearer <token>; a per-call traceId sets
\* X-Trace-Id and X-Request-Id to it.
C22_BaselineHeaders ==
  outbound.op \in {"direct", "context"} =>
    /\ outbound.sent["Content-Type"] = Some(Json)
    /\ outbound.sent["Accept"] = Some(Json)
    /\ \A t \in TruthyOf(outbound.call.token) :
         outbound.sent["Authorization"] = Some(Bearer(t))
    /\ \A t \in TruthyOf(outbound.call.traceId) :
         /\ outbound.sent["X-Trace-Id"] = Some(<<t>>)
         /\ outbound.sent["X-Request-Id"] = Some(<<t>>)

\* text without its trailing slashes / without its leading slashes
RECURSIVE WithoutTrailingSlashes(_)
WithoutTrailingSlashes(text) ==
  IF EndsWithSlash(text)
  THEN WithoutTrailingSlashes(SubSeq(text, 1, Len(text) - 1)) ELSE text

RECURSIVE WithoutLeadingSlashes(_)
WithoutLeadingSlashes(text) ==
  IF StartsWithSlash(text)
  THEN WithoutLeadingSlashes(SubSeq(text, 2, Len(text))) ELSE text

\* C23: the requested URL is the base URL and the path joined by exactly one
\* '/', for every combination of trailing slashes on the base and leading
\* slashes on the path; query entries that are undefined are left out and
\* every other entry appears once, as a string.
C23_UrlJoin ==
  outbound.op \in {"direct", "context"} =>
    LET entries == Coalesce(outbound.query, <<>>)
        search == outbound.url.search
    IN /\ outbound.url.href =
            WithoutTrailingSlashes(outbound.baseUrl) \o <<"/">>
              \o WithoutLeadingSlashes(outbound.path)
       /\ \A i \in 1 .. Len(entries) :
            IF entries[i].value.type = "undefined"
            THEN \A j \in 1 .. Len(search) : search[j][1] # entries[i].key
            ELSE Cardinality({j \in 1 .. Len(search) :
                                search[j][1] = entries[i].key}) = 1
                 /\ \E j \in 1 .. Len(search) :
                      search[j] = <<entries[i].key, entries[i].value.text>>
       /\ \A j \in 1 .. Len(search) :
            \E i \in 1 .. Len(entries) : search[j][1] = entries[i].key

(* ------------------------------------------------------------------ *)
(* Claims about the folders router                                    *)
(* ------------------------------------------------------------------ *)

\* the ids met by following parentId upwards from folder id, itself left out
RECURSIVE AncestorIds(_, _, _)
AncestorIds(folders, id, fuel) ==
  IF fuel = 0 THEN {}
  ELSE UNION {{p} \cup AncestorIds(folders, p, fuel - 1) :
                p \in UNION {f.parentId : f \in FindFolder(folders, id)}}

\* no folder is its own ancestor
Acyclic(folders) ==
  \A i \in 1 .. Len(folders) :
    folders[i].id \notin AncestorIds(folders, folders[i].id, Len(folders))

\* C25: the parentId relation of the folders stays acyclic: no sequence of
\* create, update, move and delete makes a folder its own ancestor, move
\* rejecting with BAD_REQUEST a move into the folder itself or one of its
\* descendants.
C25_FoldersAcyclic == Acyclic(mockFolders)

\* C26: getBreadcrumb terminates in every reachable state of the store: its
\* walk up the parents never lists a folder twice, so it is over after at
\* most as many turns as there are folders.
C26_BreadcrumbTerminates ==
  crumb.pc = "walking" => Len(crumb.breadcrumb) <= Len(mockFolders)

(* ------------------------------------------------------------------ *)
(* Claims about the procedures and the documents router               *)
(* ------------------------------------------------------------------ *)

\* 'module:*' for a permission 'module:action'
ModuleWildcard(permission) ==
  CASE permission \in {"users:read", "users:write"} -> "users:*"
    [] permission = "teams:read" -> "teams:*"

\* C24: hasPermission('module:action') lets the request proceed when the
\* user's permissions hold '*', 'module:*' or 'module:action', rejects it with
\* FORBIDDEN when they hold none of them, and with UNAUTHORIZED when there is
\* no user.
C24_PermissionWildcards ==
  reply.proc = "hasPermission" =>
    IF reply.user = None
    THEN reply.code = "UNAUTHORIZED" /\ ~reply.ran
    ELSE \A u \in reply.user :
           IF u.role.permissions \cap
                {"*", ModuleWildcard(reply.input), reply.input} # {}
           THEN reply.ran /\ reply.code = "OK"
           ELSE ~reply.ran /\ reply.code = "FORBIDDEN"

\* the step is a documents.update that returned
IsDocumentsUpdate ==
  /\ reply'.proc = "documents.update"
  /\ reply'.code = "OK"
  /\ Len(mockDocuments') = Len(mockDocuments)

\* the documents whose content the step changed
ContentChangedAt ==
  {i \in 1 .. Len(mockDocuments) :
     mockDocuments'[i].content # mockDocuments[i].content}

\* C27: a documents.update whose content differs from the stored content,
\* the empty string included, appends exactly one version, numbered one more
\* than the document's highest version; an update that leaves the content as
\* it was appends none.
C27_UpdateAppendsVersion ==
  [][IsDocumentsUpdate =>
       /\ \A i \in ContentChangedAt :
            mockVersions' = Append(mockVersions,
              [documentId |-> mockDocuments[i].id,
               version |-> LatestVersion(mockVersions, mockDocuments[i].id) + 1,
               content |-> mockDocuments'[i].content])
       /\ ContentChangedAt = {} => mockVersions' = mockVersions]_vars

\* the procedures built on protectedProcedure and on adminProcedure
ProtectedProcedures ==
  {"documents.create", "documents.update", "documents.restoreVersion",
   "documents.delete"}

AdminProcedures == {"documents.delete"}

\* the stores are as they were
StoresUnchanged ==
  UNCHANGED <<mockDocuments, mockVersions, mockFolders, mockTeams, mockMembers>>

\* C29: no handler of a protectedProcedure runs for a request without a
\* verified user (ctx.user null): the call is rejected with UNAUTHORIZED and
\* no store is modified; no handler of an adminProcedure runs unless the
\* user's role name is 'admin': otherwise the call is rejected with FORBIDDEN
\* and no store is modified.
C29_ProcedureGates ==
  [][/\ (reply'.proc \in ProtectedProcedures /\ reply'.user = None) =>
          /\ reply'.code = "UNAUTHORIZED"
          /\ ~reply'.ran
          /\ StoresUnchanged
     /\ (reply'.proc \in AdminProcedures
           /\ \E u \in reply'.user : u.role.name # "admin") =>
          /\ reply'.code = "FORBIDDEN"
          /\ ~reply'.ran
          /\ StoresUnchanged]_vars

\* an admin has deleted a document after requests without a user and with
\* another role were turned away
C29_Witness ==
  /\ reply.proc = "documents.delete"
  /\ reply.code = "FORBIDDEN"
  /\ \E u \in reply.user : u.role.name = "editor"
  /\ FindDocumentIndex(mockDocuments, "doc-1") = 0
  /\ Len(mockDocuments) = Len(MockDocuments)

(* ------------------------------------------------------------------ *)
(* Claims about the teams router                                      *)
(* ------------------------------------------------------------------ *)

\* the user ids of the owners among a team's members
OwnersOf(teamId) ==
  LET list == MembersOf(mockMembers, teamId)
  IN {<<i, list[i].userId>> : i \in {j \in 1 .. Len(list) :
                                       list[j].role = "owner"}}

\* C28: after any sequence of teams.create, addMember, removeMember,
\* updateMemberRole and delete, every existing team that was created through
\* create has exactly one member of role 'owner', and that member is its
\* creator.
C28_OneOwner ==
  \A i \in 1 .. Len(mockTeams) :
    \A creator \in mockTeams[i].creator :
      /\ Cardinality(OwnersOf(mockTeams[i].id)) = 1
      /\ \A o \in OwnersOf(mockTeams[i].id) : o[2] = creator

(* ------------------------------------------------------------------ *)
(* C30                                                                *)
(* ------------------------------------------------------------------ *)

\* C30: every request call terminates within its budget: at no point of a
\* call, and so when it resolves or rejects, have more than (effective retry
\* count + 1) attempts been made or more than (effective retry count) backoff
\* waits been taken, for every method and every sequence of attempt outcomes.
C30_BoundedAttemptsAndWaits ==
  pc # "idle" =>
    /\ attemptsMade <= EffectiveRetries + 1
    /\ Len(waits) <= EffectiveRetries

=============================================================================
